---------------------------- MODULE Spec2Model ----------------------------
(***************************************************************************)
(* Dynamic mock server (pkg/dynamic-mock-server): the per-request script   *)
(* interpreter (HandlerExecutor) and the controller (MockController) that  *)
(* owns the route table and the per-port listeners; and the test library   *)
(* of package v1 (conditions, JSON paths, Tester) with the mock client.    *)
(*                                                                         *)
(* Go strings are sequences of one-character strings, so that formatting   *)
(* (fmt.Sprintf("%v")), parsing (strconv) and template rendering are       *)
(* computed and not assumed.  Loosely typed values (interface{}) are       *)
(* records [t, v] tagged with their dynamic type.                          *)
(***************************************************************************)
EXTENDS Integers, Sequences, FiniteSets, TLC

VARIABLES
    Routes,     \* MockController.Routes: port -> method -> path -> steps
    Servers,    \* MockController.Servers: port -> listener instance id
    inst,       \* every http.Server ever created: id -> [port, state, shut]
    bound,      \* the operating system's view: port -> id of the listening socket, 0 if free
    ctl,        \* control-plane calls: running reset handlers, and history (what was answered)
    reqs,       \* requests to mock listeners: sequence of [port, method, path, pc, h, ...]
    eval,       \* package v1: the library call under evaluation, [fn, args, done, ret]
    Stages,         \* Tester.Stages: the registered StageDefs, in order
    stageActions,   \* package v1: stage name -> the actions recorded for it
    currentStage,   \* package v1: name of the stage being run, "" if none
    isRecording,    \* package v1: whether helper operations are recorded
    isDryRun,       \* package v1: whether the tester is in discovery mode
    calls           \* goroutines calling the Tester: caller -> the call it is in

\* The mock server's state and the state of the test library and client
mockvars == <<Routes, Servers, inst, bound, ctl, reqs>>
testervars == <<Stages, stageActions, currentStage, isRecording, isDryRun, calls>>
libvars == <<eval, testervars>>
vars == <<Routes, Servers, inst, bound, ctl, reqs, eval,
          Stages, stageActions, currentStage, isRecording, isDryRun, calls>>

-----------------------------------------------------------------------------
(* Bounds of the model *)

MaxScriptLen == 3
MaxOps == 4
MaxJsonScriptLen == 2
MaxPathSegs == 2
IntBits == 8
MaxDigits == 4
\* Goroutines calling the Tester, and stages registered with it
MaxCallers == 2
MaxStages == 2
\* Longest wait of a script, in milliseconds
MaxWait == 3

-----------------------------------------------------------------------------
(* Values and strings *)

NilVal == [t |-> "nil", v |-> <<>>]
StrVal(s) == [t |-> "string", v |-> s]
NumVal(n) == [t |-> "number", v |-> n]
\* A Go int, as opposed to the float64 a JSON number decodes to
IntVal(n) == [t |-> "int", v |-> n]
BoolVal(b) == [t |-> "bool", v |-> b]
\* Decoded JSON: map[string]interface{} and []interface{}
ObjVal(f) == [t |-> "object", v |-> f]
ArrVal(a) == [t |-> "array", v |-> a]

Digits == <<"0", "1", "2", "3", "4", "5", "6", "7", "8", "9">>

RECURSIVE FormatNat(_)
FormatNat(n) ==
    IF n < 10 THEN <<Digits[n + 1]>>
    ELSE FormatNat(n \div 10) \o <<Digits[(n % 10) + 1]>>

FormatInt(n) == IF n < 0 THEN <<"-">> \o FormatNat(-n) ELSE FormatNat(n)

\* The characters of the model's strings, in byte order
Ascii ==
    << " ", "\"", "#", "-", ".", "/", "0", "1", "2", "3", "4", "5", "6", "7", "8", "9",
       ":", "<", ">", "A", "B", "C", "D", "E", "F", "G", "H", "I", "J", "K", "L", "M",
       "N", "O", "P", "Q", "R", "S", "T", "U", "V", "W", "X", "Y", "Z", "[", "]", "_",
       "a", "b", "c", "d", "e", "f", "g", "h", "i", "j", "k", "l", "m", "n", "o", "p",
       "q", "r", "s", "t", "u", "v", "w", "x", "y", "z", "{", "}" >>

CharRank(c) == CHOOSE i \in 1..Len(Ascii) : Ascii[i] = c

\* a < b on Go strings
RECURSIVE LexLess(_, _)
LexLess(a, b) ==
    IF Len(a) = 0 THEN Len(b) > 0
    ELSE IF Len(b) = 0 THEN FALSE
    ELSE IF a[1] = b[1] THEN LexLess(Tail(a), Tail(b))
    ELSE CharRank(a[1]) < CharRank(b[1])

\* fmt prints a map's entries in the order of the sorted keys
RECURSIVE SortedKeys(_)
SortedKeys(S) ==
    IF S = {} THEN <<>>
    ELSE LET k == CHOOSE x \in S : \A y \in S \ {x} : LexLess(x, y)
         IN  <<k>> \o SortedKeys(S \ {k})

RECURSIVE JoinSpace(_)
JoinSpace(parts) ==
    IF Len(parts) = 0 THEN <<>>
    ELSE IF Len(parts) = 1 THEN parts[1]
    ELSE parts[1] \o <<" ">> \o JoinSpace(Tail(parts))

\* fmt.Sprintf("%v", x)
RECURSIVE SprintV(_)
SprintV(x) ==
    CASE x.t = "string" -> x.v
      [] x.t \in {"number", "int"} -> FormatInt(x.v)
      [] x.t = "bool" -> IF x.v THEN <<"t", "r", "u", "e">> ELSE <<"f", "a", "l", "s", "e">>
      [] x.t = "array" ->
           <<"[">> \o JoinSpace([i \in 1..Len(x.v) |-> SprintV(x.v[i])]) \o <<"]">>
      [] x.t = "object" ->
           LET keys == SortedKeys(DOMAIN x.v)
           IN  <<"m", "a", "p", "[">>
               \o JoinSpace([i \in 1..Len(keys) |-> keys[i] \o <<":">> \o SprintV(x.v[keys[i]])])
               \o <<"]">>
      [] OTHER -> <<"<", "n", "i", "l", ">">>

DigitValue(c) == CHOOSE d \in 0..9 : Digits[d + 1] = c

IsDigit(c) == \E d \in 1..10 : Digits[d] = c

RECURSIVE ParseNat(_)
ParseNat(s) ==
    IF Len(s) = 0 THEN 0
    ELSE 10 * ParseNat(SubSeq(s, 1, Len(s) - 1)) + DigitValue(s[Len(s)])

\* strconv.ParseFloat(v, 64) with the error dropped: 0 unless v is a decimal integer literal
ParseFloat(s) ==
    LET neg == Len(s) > 0 /\ s[1] = "-"
        body == IF neg THEN Tail(s) ELSE s
    IN  IF Len(body) > 0 /\ \A i \in 1..Len(body) : IsDigit(body[i])
        THEN IF neg THEN -ParseNat(body) ELSE ParseNat(body)
        ELSE 0

toFloat(i) ==
    CASE i.t = "number" -> i.v
      [] i.t = "string" -> ParseFloat(i.v)
      [] OTHER -> 0

\* strconv.Atoi(s) with the error dropped: 0 unless s is an optionally signed
\* decimal literal
Atoi(s) ==
    LET signed == Len(s) > 0 /\ s[1] \in {"-", "+"}
        body == IF signed THEN Tail(s) ELSE s
    IN  IF Len(body) > 0 /\ \A i \in 1..Len(body) : IsDigit(body[i])
        THEN IF signed /\ s[1] = "-" THEN -ParseNat(body) ELSE ParseNat(body)
        ELSE 0

\* m[k] = v on a Go map
MapSet(m, k, v) == [x \in (DOMAIN m) \cup {k} |-> IF x = k THEN v ELSE m[x]]

\* delete(m, k)
MapDelete(m, k) == [x \in (DOMAIN m) \ {k} |-> m[x]]

EmptyMap == [x \in {} |-> NilVal]

\* strings.Contains(s, sub)
Contains(s, sub) ==
    \E i \in 1..(Len(s) - Len(sub) + 1) : SubSeq(s, i, i + Len(sub) - 1) = sub

\* strings.Index(s, sub) as a 1-based position, 0 when absent
IndexFrom(s, sub, from) ==
    LET hits == {i \in from..(Len(s) - Len(sub) + 1) : SubSeq(s, i, i + Len(sub) - 1) = sub}
    IN  IF hits = {} THEN 0 ELSE CHOOSE i \in hits : \A j \in hits : i <= j


\* strings.HasSuffix(s, suffix)
HasSuffix(s, suffix) ==
    Len(s) >= Len(suffix) /\ SubSeq(s, Len(s) - Len(suffix) + 1, Len(s)) = suffix

\* strings.Split(s, sep) for a one-character separator
RECURSIVE Split(_, _)
Split(s, sep) ==
    LET at == IndexFrom(s, <<sep>>, 1)
    IN  IF at = 0 THEN <<s>>
        ELSE <<SubSeq(s, 1, at - 1)>> \o Split(SubSeq(s, at + 1, Len(s)), sep)

-----------------------------------------------------------------------------
(* Wire model: instructions *)

GroupPrepareData == "PrepareData"
GroupGenerator == "Generator"
GroupDynamicVariable == "DynamicVariable"
GroupSetupResponse == "SetupResponse"

ConditionEqual == <<"E", "q", "u", "a", "l">>

ResponseFuncConfig(group, func, args) == [Group |-> group, Func |-> func, Args |-> args]

\* The nil slice: what "responseFunc" absent or null decodes to.  It differs
\* from the empty, non-nil slice that "responseFunc": [] decodes to.
NilSteps == [nil |-> TRUE, list |-> <<>>]
Steps(list) == [nil |-> FALSE, list |-> list]

-----------------------------------------------------------------------------
(* Script interpreter: HandlerExecutor *)

\* The request body as Execute sees it (lines 47-53): absent or empty, bytes
\* that json.Unmarshal rejects, or a JSON document, given by its decoded value
NoBody == [kind |-> "none", v |-> NilVal]
InvalidBody == [kind |-> "invalid", v |-> NilVal]
JsonBody(v) == [kind |-> "json", v |-> v]

\* h.ParsedBody after the pre-parse of Execute: nil unless the body decoded
ParsedBody(req) == IF req.Body.kind = "json" THEN req.Body.v ELSE NilVal

\* The loop of getJSONPath (lines 307-342)
RECURSIVE WalkPath(_, _)
WalkPath(current, parts) ==
    IF Len(parts) = 0 THEN current
    ELSE LET part == parts[1]
             indexed == Contains(part, <<"[">>) /\ HasSuffix(part, <<"]">>)
             idxStart == IndexFrom(part, <<"[">>, 1)
             key == IF indexed THEN SubSeq(part, 1, idxStart - 1) ELSE part
             idx == IF indexed THEN Atoi(SubSeq(part, idxStart + 1, Len(part) - 1)) ELSE -1
         IN  IF current.t # "object" THEN NilVal
             ELSE IF key \notin DOMAIN current.v THEN NilVal
             ELSE LET val == current.v[key]
                  IN  IF idx >= 0
                      THEN IF val.t # "array" THEN NilVal
                           ELSE IF idx >= Len(val.v) THEN NilVal
                           ELSE WalkPath(val.v[idx + 1], Tail(parts))
                      ELSE WalkPath(val, Tail(parts))

getJSONPath(req, path) ==
    IF ParsedBody(req).t = "nil" THEN NilVal
    ELSE WalkPath(ParsedBody(req), Split(path, "."))

\* http.Header.Get / url.Values.Get: "" when the key is absent
Get(m, k) == IF k \in DOMAIN m THEN m[k] ELSE <<>>

NewHandlerExecutor ==
    [ Variables  |-> EmptyMap,
      StatusCode |-> 200,
      Body       |-> <<>>,
      Headers    |-> EmptyMap,
      FixedDelay |-> 0,
      RandomWait |-> <<0, 0>>,
      ActiveCase |-> <<>>,
      panicked   |-> FALSE ]

IsIdentChar(c) ==
    c \in {"A", "B", "C", "V", "X", "Y", "a", "b", "c", "v", "x", "y", "_"} \/ IsDigit(c)

\* What text/template prints for {{.name}} against the variable map:
\* a missing key, or a nil value, prints "<no value>".
FieldText(V, name) ==
    IF name \in DOMAIN V /\ V[name].t # "nil"
    THEN SprintV(V[name])
    ELSE <<"<", "n", "o", " ", "v", "a", "l", "u", "e", ">">>

\* template.Parse followed by Execute, for templates whose actions are field
\* references {{.Name}}; ok = FALSE stands for a parse or execution error.
RECURSIVE RenderTemplate(_, _)
RenderTemplate(s, V) ==
    LET open == IndexFrom(s, <<"{", "{">>, 1)
    IN  IF open = 0 THEN [ok |-> TRUE, out |-> s]
        ELSE LET close == IndexFrom(s, <<"}", "}">>, open + 2)
             IN  IF close = 0 THEN [ok |-> FALSE, out |-> <<>>]
                 ELSE LET action == SubSeq(s, open + 2, close - 1)
                          name == IF Len(action) > 0 THEN Tail(action) ELSE <<>>
                          rest == RenderTemplate(SubSeq(s, close + 2, Len(s)), V)
                      IN  IF \/ Len(action) < 2
                             \/ action[1] # "."
                             \/ \E i \in 1..Len(name) : ~IsIdentChar(name[i])
                             \/ ~rest.ok
                          THEN [ok |-> FALSE, out |-> <<>>]
                          ELSE [ok |-> TRUE,
                                out |-> SubSeq(s, 1, open - 1) \o FieldText(V, name) \o rest.out]

resolveString(h, s) ==
    IF ~Contains(s, <<"{", "{">>) THEN s
    ELSE LET r == RenderTemplate(s, h.Variables)
         IN  IF r.ok THEN r.out ELSE s

resolveArg(h, arg) ==
    IF arg.t = "string" THEN StrVal(resolveString(h, arg.v)) ELSE arg

checkCondition(actual, cond, expected) ==
    LET actStr == SprintV(actual)
        expStr == SprintV(expected)
    IN  IF cond = ConditionEqual THEN actStr = expStr ELSE FALSE

\* Mutant of BindIf: the binding variant moves the active case as well
BindIfAndSetCase(h, actualVal, condition, expectedVal, targetVar, toBeVal) ==
    IF checkCondition(actualVal, condition, expectedVal)
    THEN [h EXCEPT !.Variables = MapSet(@, targetVar, toBeVal), !.ActiveCase = targetVar]
    ELSE h

\* The "If..." variants that bind a variable share the tail of the function
\* (lines 281-283); the SetCase and Extract variants return from their case.
BindIf(h, actualVal, condition, expectedVal, targetVar, toBeVal) ==
    IF checkCondition(actualVal, condition, expectedVal)
    THEN [h EXCEPT !.Variables = MapSet(@, targetVar, toBeVal)]
    ELSE h

\* Mutant of SetCaseIf: the first matching case sticks
SetCaseIfFirstWins(h, actualVal, condition, expectedVal, caseStr) ==
    IF checkCondition(actualVal, condition, expectedVal) /\ h.ActiveCase = <<>>
    THEN [h EXCEPT !.ActiveCase = caseStr]
    ELSE h

\* Mutant of SetCaseIf: a change of case starts the response afresh
SetCaseIfStartingAfresh(h, actualVal, condition, expectedVal, caseStr) ==
    IF checkCondition(actualVal, condition, expectedVal)
    THEN [h EXCEPT !.ActiveCase = caseStr, !.StatusCode = 200, !.Body = <<>>,
                   !.Headers = EmptyMap]
    ELSE h

SetCaseIf(h, actualVal, condition, expectedVal, caseStr) ==
    IF checkCondition(actualVal, condition, expectedVal)
    THEN [h EXCEPT !.ActiveCase = caseStr]
    ELSE h

handlePrepareData(h, req, f) ==
    LET args == f.Args
        n == Len(args)
    IN  CASE f.Func = "IfRequestHeader" ->
               IF n < 5 THEN h
               ELSE BindIf(h, StrVal(Get(req.Header, SprintV(args[1]))), SprintV(args[2]),
                           resolveArg(h, args[3]), SprintV(args[4]), resolveArg(h, args[5]))
          [] f.Func = "IfRequestJsonBody" ->
               IF n < 5 THEN h
               ELSE BindIf(h, getJSONPath(req, SprintV(args[1])), SprintV(args[2]),
                           resolveArg(h, args[3]), SprintV(args[4]), resolveArg(h, args[5]))
          [] f.Func = "IfRequestPath" ->
               IF n < 4 THEN h
               ELSE BindIf(h, StrVal(req.Path), SprintV(args[1]),
                           resolveArg(h, args[2]), SprintV(args[3]), resolveArg(h, args[4]))
          [] f.Func = "IfRequestQuery" ->
               IF n < 5 THEN h
               ELSE BindIf(h, StrVal(Get(req.Query, SprintV(args[1]))), SprintV(args[2]),
                           resolveArg(h, args[3]), SprintV(args[4]), resolveArg(h, args[5]))
          [] f.Func = "IfRequestHeaderSetCase" ->
               IF n < 4 THEN h
               ELSE SetCaseIf(h, StrVal(Get(req.Header, SprintV(args[1]))), SprintV(args[2]),
                              resolveArg(h, args[3]), SprintV(args[4]))
          [] f.Func = "IfRequestJsonBodySetCase" ->
               IF n < 4 THEN h
               ELSE SetCaseIf(h, getJSONPath(req, SprintV(args[1])), SprintV(args[2]),
                              resolveArg(h, args[3]), SprintV(args[4]))
          [] f.Func = "IfRequestPathSetCase" ->
               IF n < 3 THEN h
               ELSE SetCaseIf(h, StrVal(req.Path), SprintV(args[1]),
                              resolveArg(h, args[2]), SprintV(args[3]))
          [] f.Func = "IfRequestQuerySetCase" ->
               IF n < 4 THEN h
               ELSE SetCaseIf(h, StrVal(Get(req.Query, SprintV(args[1]))), SprintV(args[2]),
                              resolveArg(h, args[3]), SprintV(args[4]))
          [] f.Func = "ExtractRequestHeader" ->
               IF n < 2 THEN h
               ELSE [h EXCEPT !.Variables =
                        MapSet(@, SprintV(args[2]), StrVal(Get(req.Header, SprintV(args[1]))))]
          [] f.Func = "ExtractRequestJsonBody" ->
               IF n < 2 THEN h
               ELSE LET val == getJSONPath(req, SprintV(args[1]))
                    IN  IF val.t # "nil"
                        THEN [h EXCEPT !.Variables = MapSet(@, SprintV(args[2]), val)]
                        ELSE h
          [] f.Func = "ExtractRequestPath" ->
               IF n < 1 THEN h
               ELSE [h EXCEPT !.Variables = MapSet(@, SprintV(args[1]), StrVal(req.Path))]
          [] f.Func = "ExtractRequestQuery" ->
               IF n < 2 THEN h
               ELSE [h EXCEPT !.Variables =
                        MapSet(@, SprintV(args[2]), StrVal(Get(req.Query, SprintV(args[1]))))]
          [] OTHER ->
               \* no case matched: condition is "", actual and expected are nil
               BindIf(h, NilVal, <<>>, NilVal, <<>>, NilVal)

\* An index past the end of args panics (runtime error: index out of range).
Panic(h) == [h EXCEPT !.panicked = TRUE]

handleDynamicVariable(h, f) ==
    LET args == f.Args
    IN  IF Len(args) < 1 THEN Panic(h)
        ELSE LET targetVar == SprintV(args[1])
             IN  CASE f.Func = "ConvertToString" ->
                        IF targetVar \in DOMAIN h.Variables
                        THEN [h EXCEPT !.Variables =
                                 MapSet(@, targetVar, StrVal(SprintV(h.Variables[targetVar])))]
                        ELSE h
                   [] f.Func = "ConvertToInt" ->
                        IF targetVar \in DOMAIN h.Variables
                        THEN [h EXCEPT !.Variables =
                                 MapSet(@, targetVar, NumVal(toFloat(h.Variables[targetVar])))]
                        ELSE h
                   [] f.Func = "Delete" ->
                        [h EXCEPT !.Variables = MapDelete(@, targetVar)]
                   [] OTHER -> h


\* rand.Intn(n): any of 0..n-1 (the callers below pass n > 0)
Intn(n) == 0..(n - 1)

\* pow10(n): the loop runs n times, not at all for n <= 0
pow10(n) == IF n >= 0 THEN 10 ^ n ELSE 1

\* The alphabet of randomString (line 474)
Letters == {Ascii[i] : i \in {j \in 1..Len(Ascii) : IsDigit(Ascii[j]) \/ (j >= 20 /\ j <= 45) \/ (j >= 49 /\ j <= 74)}}

\* randomString(n): make([]byte, n) panics for a negative n
randomString(n) == [1..n -> Letters]

\* rand.Float64()*(max-min) + min lies in [min, max); the model's numbers are
\* integers, so the draw is restricted to the integers of that interval
RandomDecimal(min, max) ==
    IF min < max THEN min..(max - 1)
    ELSE IF max < min THEN (max + 1)..min
    ELSE {min}

\* hex.EncodeToString of the digest: the digest itself is not computed, it is
\* represented by a string that the algorithm and the input determine
Digest(algo, val) ==
    IF algo = <<"M", "D", "5">> \/ algo = <<"S", "H", "A", "2", "5", "6">>
    THEN <<"#">> \o algo \o <<":">> \o val
    ELSE <<>>

\* Go's int: IntBits wide, two's complement.  The build has 64 bits; the
\* model computes with IntBits so that the whole range can be enumerated.
MinInt == -(2 ^ (IntBits - 1))
MaxInt == 2 ^ (IntBits - 1) - 1

\* Integer arithmetic wraps around
WrapInt(x) == ((x - MinInt) % (2 ^ IntBits)) + MinInt

\* int(f) for a float64 f: when f is outside the range of int the result is
\* implementation-specific (the smallest int on amd64, saturation on arm64)
IntOf(f) == IF f >= MinInt /\ f <= MaxInt THEN {f} ELSE {MinInt, MaxInt}

\* h.Variables[targetVar] = rand.Intn(max-min+1) + min (lines 357 and 364);
\* rand.Intn panics unless its argument is positive
RandomIntBetween(h, min, max, targetVar) ==
    LET n == WrapInt(max - min + 1)
    IN  IF n <= 0 THEN {Panic(h)}
        ELSE {[h EXCEPT !.Variables = MapSet(@, targetVar, NumVal(WrapInt(v + min)))] :
                 v \in Intn(n)}

\* Every outcome of a random draw is a possible next executor state.
handleGenerator(h, f) ==
    LET args == f.Args
    IN  CASE f.Func = "GenerateRandomInt" ->
               IF Len(args) < 3 THEN {Panic(h)}
               ELSE UNION {RandomIntBetween(h, min, max, SprintV(args[3])) :
                              min \in IntOf(toFloat(args[1])), max \in IntOf(toFloat(args[2]))}
          [] f.Func = "GenerateRandomIntFixLength" ->
               IF Len(args) < 2 THEN {Panic(h)}
               ELSE UNION {UNION {RandomIntBetween(h, min, max, SprintV(args[2])) :
                                     min \in IntOf(pow10(length - 1)),
                                     max \in IntOf(pow10(length) - 1)} :
                              length \in IntOf(toFloat(args[1]))}
          [] f.Func = "GenerateRandomString" ->
               IF Len(args) < 2 THEN {Panic(h)}
               ELSE IF toFloat(args[1]) < 0 THEN {Panic(h)}
               ELSE {[h EXCEPT !.Variables = MapSet(@, SprintV(args[2]), StrVal(str))] :
                        str \in randomString(toFloat(args[1]))}
          [] f.Func = "GenerateRandomDecimal" ->
               IF Len(args) < 4 THEN {Panic(h)}
               ELSE {[h EXCEPT !.Variables = MapSet(@, SprintV(args[4]), NumVal(v))] :
                        v \in RandomDecimal(toFloat(args[1]), toFloat(args[2]))}
          [] f.Func = "HashedString" ->
               IF Len(args) < 3 THEN {Panic(h)}
               ELSE LET fromVar == SprintV(args[1])
                        val == IF fromVar \in DOMAIN h.Variables
                               THEN SprintV(h.Variables[fromVar]) ELSE SprintV(NilVal)
                    IN  {[h EXCEPT !.Variables =
                             MapSet(@, SprintV(args[3]), StrVal(Digest(SprintV(args[2]), val)))]}
          [] OTHER -> {h}

\* Mutant of CaseMatches: the gate is missing
CaseMatchesAlways(h, caseStr) == TRUE

\* Mutant of CaseMatches: default-case instructions apply under every case
CaseMatchesOrDefault(h, caseStr) == caseStr = h.ActiveCase \/ caseStr = <<>>

\* Mutant of StoredBody: the template is rendered when SetJsonBody executes
StoredBodyRendered(h, arg) == resolveString(h, SprintV(arg))

\* Line 424: SetJsonBody stores its argument as it is
StoredBody(h, arg) == SprintV(arg)

\* Mutant of StoredHeader: the value is stored as the template it is
StoredHeaderAsWritten(h, arg) == SprintV(arg)

\* Line 438: SetHeader stores its value rendered
StoredHeader(h, arg) == resolveString(h, SprintV(arg))

\* The case gate of handleSetupResponse (line 418)
CaseMatches(h, caseStr) == caseStr = h.ActiveCase

handleSetupResponse(h, req, f) ==
    LET args == f.Args
        n == Len(args)
    IN  IF n = 0 THEN h
        ELSE IF ~CaseMatches(h, SprintV(args[1])) THEN h
        ELSE CASE f.Func = "SetJsonBody" ->
                    IF n < 2 THEN Panic(h) ELSE [h EXCEPT !.Body = StoredBody(h, args[2])]
               [] f.Func = "SetStatusCode" ->
                    IF n < 2 THEN Panic(h) ELSE [h EXCEPT !.StatusCode = toFloat(args[2])]
               [] f.Func = "SetWait" ->
                    IF n < 2 THEN Panic(h) ELSE [h EXCEPT !.FixedDelay = toFloat(args[2])]
               [] f.Func = "SetRandomWait" ->
                    IF n < 3 THEN Panic(h)
                    ELSE [h EXCEPT !.RandomWait = <<toFloat(args[2]), toFloat(args[3])>>]
               [] f.Func = "SetMethod" -> h
               [] f.Func = "SetHeader" ->
                    IF n < 3 THEN Panic(h)
                    ELSE [h EXCEPT !.Headers = MapSet(@, SprintV(args[2]), StoredHeader(h, args[3]))]
               [] f.Func = "CopyHeaderFromRequest" ->
                    IF n < 2 THEN Panic(h)
                    ELSE LET key == SprintV(args[2])
                             val == Get(req.Header, key)
                         IN  IF val # <<>> THEN [h EXCEPT !.Headers = MapSet(@, key, val)] ELSE h
               [] OTHER -> h

\* The set of executor states one instruction can lead to
runFunc(h, req, f) ==
    CASE f.Group = GroupPrepareData -> {handlePrepareData(h, req, f)}
      [] f.Group = GroupGenerator -> handleGenerator(h, f)
      [] f.Group = GroupDynamicVariable -> {handleDynamicVariable(h, f)}
      [] f.Group = GroupSetupResponse -> {handleSetupResponse(h, req, f)}
      [] OTHER -> {h}

NoResponse == [written |-> FALSE, status |-> 0, headers |-> EmptyMap, body |-> <<>>, slept |-> 0]

\* The random part of the delay: rand.Intn(max-min)+min when max > 0 and max > min
RandomSleeps(h) ==
    LET min == h.RandomWait[1]
        max == h.RandomWait[2]
    IN  IF max > 0 /\ max > min THEN {d + min : d \in Intn(max - min)} ELSE {0}

\* The responses Finalize can write.  http.ResponseWriter.WriteHeader panics
\* on a status code outside 100..999, before anything is written.
Finalize(h) ==
    IF h.StatusCode < 100 \/ h.StatusCode > 999 THEN {NoResponse}
    ELSE {[written |-> TRUE,
           status  |-> h.StatusCode,
           headers |-> h.Headers,
           body    |-> resolveString(h, h.Body),
           slept   |-> (IF h.FixedDelay > 0 THEN h.FixedDelay ELSE 0) + d] :
             d \in RandomSleeps(h)}


-----------------------------------------------------------------------------
(* Requests to a mock listener: handleMockRequest *)

\* The route lookup of handleMockRequest (lines 366-373): steps stays nil
\* unless all three levels of the table hold the key.
LookupSteps(R, port, method, path) ==
    IF port \in DOMAIN R
    THEN IF method \in DOMAIN R[port]
         THEN IF path \in DOMAIN R[port][method] THEN R[port][method][path] ELSE NilSteps
         ELSE NilSteps
    ELSE NilSteps

\* A request as its handler goroutine sees it.  result: "" while in flight,
\* then "refused" (no listener accepted the connection), "404", "scripted"
\* (Finalize wrote the response) or "aborted" (the handler panicked and the
\* server dropped the connection).  afterReset is history: the request
\* arrived after a resetPort of its port returned, with no registerRoute for
\* that port since the reset removed the routes.
NewRequest(port, r, id, quiet) ==
    [ port   |-> port,
      r      |-> r,
      inst   |-> id,
      pc     |-> IF id = 0 THEN "done" ELSE "connected",
      result |-> IF id = 0 THEN "refused" ELSE "",
      steps  |-> NilSteps,
      idx    |-> 0,
      h      |-> NewHandlerExecutor,
      resp   |-> NoResponse,
      afterReset |-> quiet ]

\* The request once its handler has returned: the connection is released and
\* the executor, owned by the request, is gone.  steps stays as the record of
\* what the request captured at lookup.
Done(q, result, resp) ==
    [q EXCEPT !.pc = "done", !.result = result, !.resp = resp, !.inst = 0,
              !.h = NewHandlerExecutor]

\* The run is bounded by the number of operations started: control-plane
\* calls (ctl.n) and requests to mock listeners.
OpsLeft == ctl.n + Len(reqs) < MaxOps

\* Mutant of HoldsLock: the lock is kept until the shutdowns have returned
HoldsLockWhileWaiting(call) == \E id \in call.insts : inst[id].shut \in {"no", "begun"}

\* Whether a reset handler that has left its locked section still holds
\* mc.mu: it does not, the lock is released before Shutdown is called
\* (README lines 313, 321 and 343).
HoldsLock(call) == FALSE

\* mc.mu.Lock() and mc.mu.RLock() return only when no handler holds the write
\* lock.  The locked sections themselves are single steps.
LockFree == \A c \in DOMAIN ctl.active : ~HoldsLock(ctl.active[c])

\* The listener a new connection to the port reaches, 0 if none accepts
Accepting(port) ==
    IF bound[port] # 0 /\ inst[bound[port]].state = "listening" THEN bound[port] ELSE 0

Arrive(port, r) ==
    /\ OpsLeft
    /\ reqs' = Append(reqs, NewRequest(port, r, Accepting(port), port \in ctl.resetRet))
    /\ UNCHANGED <<Routes, Servers, inst, bound, ctl>>
    /\ UNCHANGED libvars

\* Mutant of ExecutorFor: one executor is shared by the requests in flight
ExecutorShared(i) ==
    LET others == {j \in DOMAIN reqs : j # i /\ reqs[j].pc = "exec"}
    IN  IF others = {} THEN NewHandlerExecutor
        ELSE reqs[CHOOSE j \in others : TRUE].h

\* executor := NewHandlerExecutor(w, r) (README line 384): a new executor for
\* every request
ExecutorFor(i) == NewHandlerExecutor

Lookup(i) ==
    /\ reqs[i].pc = "connected"
    /\ LockFree
    /\ LET q == reqs[i]
           steps == LookupSteps(Routes, q.port, q.r.Method, q.r.Path)
       IN  reqs' = [reqs EXCEPT ![i] =
                IF steps.nil
                THEN [q EXCEPT !.pc = "done", !.result = "404", !.inst = 0]
                ELSE [q EXCEPT !.pc = "exec", !.steps = steps, !.idx = 1,
                               !.h = ExecutorFor(i)]]
    /\ UNCHANGED <<Routes, Servers, inst, bound, ctl>>
    /\ UNCHANGED libvars

\* Mutant of CapturedSteps: the route table is read again at every instruction
CurrentSteps(q) == LookupSteps(Routes, q.port, q.r.Method, q.r.Path)

\* The script the executor runs: the slice handleMockRequest read under the
\* read lock and passed to Execute (README lines 370 and 385)
CapturedSteps(q) == q.steps

\* One iteration of the loop of Execute
ExecStep(i) ==
    /\ reqs[i].pc = "exec"
    /\ reqs[i].idx <= Len(CapturedSteps(reqs[i]).list)
    /\ LET q == reqs[i]
       IN  \E h2 \in runFunc(q.h, q.r, CapturedSteps(q).list[q.idx]) :
               reqs' = [reqs EXCEPT ![i] =
                   IF h2.panicked
                   THEN Done(q, "aborted", NoResponse)
                   ELSE [q EXCEPT !.idx = @ + 1, !.h = h2]]
    /\ UNCHANGED <<Routes, Servers, inst, bound, ctl>>
    /\ UNCHANGED libvars

FinalizeReq(i) ==
    /\ reqs[i].pc = "exec"
    /\ reqs[i].idx > Len(CapturedSteps(reqs[i]).list)
    /\ LET q == reqs[i]
       IN  \E resp \in Finalize(q.h) :
               reqs' = [reqs EXCEPT ![i] =
                   Done(q, IF resp.written THEN "scripted" ELSE "aborted", resp)]
    /\ UNCHANGED <<Routes, Servers, inst, bound, ctl>>
    /\ UNCHANGED libvars

-----------------------------------------------------------------------------
(* Controller: MockController *)

\* Mutant of RegisterRoutes: the new instructions are appended to the entry
RegisterRoutesMerged(R, port, method, path, steps) ==
    LET R1 == IF port \in DOMAIN R THEN R ELSE MapSet(R, port, EmptyMap)
        R2 == IF method \in DOMAIN R1[port] THEN R1
              ELSE [R1 EXCEPT ![port] = MapSet(@, method, EmptyMap)]
        old == IF path \in DOMAIN R2[port][method] THEN R2[port][method][path].list ELSE <<>>
    IN  [R2 EXCEPT ![port][method] = MapSet(@, path, [steps EXCEPT !.list = old \o @])]

\* Lines 239-248: create the levels that are missing, then replace the entry
RegisterRoutes(R, port, method, path, steps) ==
    LET R1 == IF port \in DOMAIN R THEN R ELSE MapSet(R, port, EmptyMap)
        R2 == IF method \in DOMAIN R1[port] THEN R1
              ELSE [R1 EXCEPT ![port] = MapSet(@, method, EmptyMap)]
    IN  [R2 EXCEPT ![port][method] = MapSet(@, path, steps)]

\* Mutant of NeedsServer: a listener is started on every registration
NeedsServerAlways(S, port) == TRUE

\* Line 251: a listener is started only when the port has no entry
NeedsServer(S, port) == port \notin DOMAIN S

NewInstance(port) == [port |-> port, state |-> "new", shut |-> "no"]

\* The error startMockServerLocked returns: always nil (line 293).  The bind
\* happens later, in the goroutine, and its error is only logged (line 289).
startMockServerLockedFails(port) == FALSE

\* Lines 252-256 and 267-268: 500 when starting the listener returned an
\* error, 200 otherwise
RegisterStatus(S, port) ==
    IF port \notin DOMAIN S /\ startMockServerLockedFails(port) THEN 500 ELSE 200

\* Mutant of PortOf: the key is misspelt, so the lookup yields the zero value
PortOfWrongKey(req) == IF "Port" \in DOMAIN req THEN req["Port"] ELSE 0

\* port := req["port"] on a map[string]int: 0 when the key is absent
PortOf(req) == IF "port" \in DOMAIN req THEN req["port"] ELSE 0

\* Mutant of ResetPortRoutes: every port's routes are dropped
ResetPortRoutesAll(R, port) == EmptyMap

\* Mutant of ResetPortRoutes: the port's table is emptied, not removed
ResetPortRoutesEmptied(R, port) == MapSet(R, port, EmptyMap)

\* Line 308
ResetPortRoutes(R, port) == MapDelete(R, port)

\* Lines 311-312: the instance taken out of the listener set, if any
ResetPortInstances(S, port) == IF port \in DOMAIN S THEN {S[port]} ELSE {}

\* Mutant of ResetPortServers: the listener entry is left in the set
ResetPortServersKept(S, port) == S

\* Line 312
ResetPortServers(S, port) == MapDelete(S, port)

\* Lines 332-338: every instance of the listener set
ResetAllInstances(S) == {S[p] : p \in DOMAIN S}

\* A running reset handler.  port is the port the caller asked to reset and
\* fresh is history: no registerRoute for that port since the reset's locked
\* section.
Call(op, port, insts) ==
    [op |-> op, port |-> port, insts |-> insts, fresh |-> TRUE]

\* What the control plane last answered, and to which endpoint
Response(op, status) == [op |-> op, status |-> status]

\* History: the registration the control plane accepted last with no reset
\* since, and how many times in a row (counted up to 2) it was accepted
NoRegistration == [k |-> <<>>, times |-> 0]

Registered(prev, k) ==
    [k |-> k, times |-> IF prev.k = k THEN 2 ELSE 1]

\* handleRegisterRoute after a successful decode: the whole handler runs
\* under the write lock.  startMockServerLocked only creates the instance and
\* spawns the goroutine that will listen; it always returns nil.
handleRegisterRoute(port, method, path, steps) ==
    /\ OpsLeft
    /\ LockFree
    /\ Routes' = RegisterRoutes(Routes, port, method, path, steps)
    /\ IF NeedsServer(Servers, port)
       THEN /\ inst' = Append(inst, NewInstance(port))
            /\ Servers' = MapSet(Servers, port, Len(inst) + 1)
       ELSE UNCHANGED <<inst, Servers>>
    /\ ctl' = [ctl EXCEPT
                 !.n = @ + 1,
                 !.last = Response("registerRoute", RegisterStatus(Servers, port)),
                 !.answered = IF NeedsServer(Servers, port)
                              THEN Append(@, RegisterStatus(Servers, port))
                              ELSE @,
                 !.lastReg = Registered(@, <<port, method, path, steps>>),
                 !.resetRet = @ \ {port},
                 !.active = [c \in DOMAIN ctl.active |->
                               IF ctl.active[c].op = "resetPort" /\ ctl.active[c].port = port
                               THEN [ctl.active[c] EXCEPT !.fresh = FALSE]
                               ELSE ctl.active[c]]]
    /\ reqs' = [i \in DOMAIN reqs |->
                  IF reqs[i].port = port THEN [reqs[i] EXCEPT !.afterReset = FALSE] ELSE reqs[i]]
    /\ UNCHANGED bound
    /\ UNCHANGED libvars

\* Lines 225-234 and 299-302: the request is answered before the lock is taken
Rejected(op, status) ==
    /\ ctl' = [ctl EXCEPT !.last = Response(op, status)]
    /\ UNCHANGED <<Routes, Servers, inst, bound, reqs>>
    /\ UNCHANGED libvars

\* The goroutine started by startMockServerLocked: server.ListenAndServe()
ListenAndServe(id) ==
    /\ inst[id].state = "new"
    /\ IF inst[id].shut # "no"
       THEN /\ inst' = [inst EXCEPT ![id].state = "closed"]      \* http.ErrServerClosed
            /\ UNCHANGED bound
       ELSE IF bound[inst[id].port] # 0
       THEN /\ inst' = [inst EXCEPT ![id].state = "failed"]      \* address already in use
            /\ UNCHANGED bound
       ELSE /\ inst' = [inst EXCEPT ![id].state = "listening"]
            /\ bound' = [bound EXCEPT ![inst[id].port] = id]
    /\ UNCHANGED <<Routes, Servers, ctl, reqs>>
    /\ UNCHANGED libvars

\* handleResetPort, the section under the write lock (lines 305-313, 321)
handleResetPort(req) ==
    /\ OpsLeft
    /\ LockFree
    /\ LET port == PortOf(req)
       IN  /\ Routes' = ResetPortRoutes(Routes, port)
           /\ Servers' = ResetPortServers(Servers, port)
           /\ ctl' = [ctl EXCEPT
                        !.n = @ + 1,
                        !.lastReg = NoRegistration,
                        !.active = Append(@, Call("resetPort", req.port,
                                                  ResetPortInstances(Servers, port)))]
    /\ UNCHANGED <<inst, bound, reqs>>
    /\ UNCHANGED libvars

\* handleResetAll, the section under the write lock (lines 330-343)
handleResetAll ==
    /\ OpsLeft
    /\ LockFree
    /\ Routes' = EmptyMap
    /\ Servers' = EmptyMap
    /\ ctl' = [ctl EXCEPT
                 !.n = @ + 1,
                 !.lastReg = NoRegistration,
                 !.active = Append(@, Call("resetAll", 0, ResetAllInstances(Servers)))]
    /\ UNCHANGED <<inst, bound, reqs>>
    /\ UNCHANGED libvars

\* Requests a listener instance is still serving
InFlight(id) == {i \in DOMAIN reqs : reqs[i].inst = id /\ reqs[i].pc # "done"}

\* http.Server.Shutdown, first part: the server stops accepting at once
ShutdownBegin(c, id) ==
    /\ c \in DOMAIN ctl.active
    /\ id \in ctl.active[c].insts
    /\ inst[id].shut = "no"
    /\ inst' = [inst EXCEPT ![id].shut = "begun",
                            ![id].state = IF @ = "listening" THEN "closed" ELSE @]
    /\ bound' = [p \in DOMAIN bound |-> IF bound[p] = id THEN 0 ELSE bound[p]]
    /\ UNCHANGED <<Routes, Servers, ctl, reqs>>
    /\ UNCHANGED libvars

\* http.Server.Shutdown, second part: it returns nil once no connection is
\* active, or the context's error when the 5 s grace period ends first.
ShutdownEnd(c, id) ==
    /\ c \in DOMAIN ctl.active
    /\ id \in ctl.active[c].insts
    /\ inst[id].shut = "begun"
    /\ inst' = [inst EXCEPT ![id].shut = IF InFlight(id) = {} THEN "done" ELSE "timeout"]
    /\ UNCHANGED <<Routes, Servers, bound, ctl, reqs>>
    /\ UNCHANGED libvars

\* Mutant of ShutdownsReturned: the handler answers without waiting
ShutdownsNotAwaited(call) == TRUE

\* Mutant of ShutdownsReturned: a Shutdown returns only when its listener
\* has no request left
ShutdownsDrained(call) == \A id \in call.insts : inst[id].shut = "done"

\* wg.Wait() in handleResetAll (line 355), the synchronous Shutdown call in
\* handleResetPort (line 317): every Shutdown the handler started has returned
ShutdownsReturned(call) == \A id \in call.insts : inst[id].shut \in {"done", "timeout"}

RemoveAt(seq, c) == [j \in 1..(Len(seq) - 1) |-> IF j < c THEN seq[j] ELSE seq[j + 1]]

\* The end of handleResetPort and handleResetAll: w.WriteHeader(http.StatusOK)
\* once every Shutdown the handler waits for has returned.
ResetReturn(c) ==
    /\ c \in DOMAIN ctl.active
    /\ LET call == ctl.active[c]
       IN  /\ ShutdownsReturned(call)
           /\ ctl' = [ctl EXCEPT
                        !.active = RemoveAt(@, c),
                        !.last = Response(call.op, 200),
                        !.resetRet = IF call.op = "resetPort" /\ call.fresh
                                     THEN @ \cup {call.port}
                                     ELSE @]
    /\ UNCHANGED <<Routes, Servers, inst, bound, reqs>>
    /\ UNCHANGED libvars


-----------------------------------------------------------------------------
(* Controller: the control server's mux *)

\* A control-plane request: its path, its method, and its body as
\* json.NewDecoder(r.Body).Decode sees it (an error, or the decoded request)
BadJson == [ok |-> FALSE, req |-> [err |-> TRUE]]
Decoded(req) == [ok |-> TRUE, req |-> req]
RegisterRouteRequest(port, method, path, responseFunc) ==
    [Port |-> port, Method |-> method, Path |-> path, ResponseFunc |-> responseFunc]
ControlRequest(path, method, body) == [Path |-> path, Method |-> method, Body |-> body]

\* Mutant of RegisterAdmission: the method is not checked
RegisterAdmissionAnyMethod(r) == IF ~r.Body.ok THEN 400 ELSE 0

\* The early returns of handleRegisterRoute (lines 225-234): the status it
\* answers before it takes the lock, 0 when it goes on
RegisterAdmission(r) ==
    IF r.Method # "POST" THEN 405
    ELSE IF ~r.Body.ok THEN 400
    ELSE 0

\* The early return of handleResetPort (lines 299-302)
ResetPortAdmission(r) == IF ~r.Body.ok THEN 400 ELSE 0

\* The mux of Start (lines 208-212) and the handler it dispatches to
ServeControl(r) ==
    IF r.Path = "/registerRoute"
    THEN IF RegisterAdmission(r) # 0
         THEN Rejected("registerRoute", RegisterAdmission(r))
         ELSE handleRegisterRoute(r.Body.req.Port, r.Body.req.Method, r.Body.req.Path,
                                  r.Body.req.ResponseFunc)
    ELSE IF r.Path = "/resetPort"
    THEN IF ResetPortAdmission(r) # 0
         THEN Rejected("resetPort", ResetPortAdmission(r))
         ELSE handleResetPort(r.Body.req)
    ELSE IF r.Path = "/resetAll"
    THEN handleResetAll
    ELSE Rejected("notFound", 404)

-----------------------------------------------------------------------------
(* Client library: instruction constructors *)

IfRequestHeader(headerName, condition, value, dynamicVar, toBeValue) ==
    ResponseFuncConfig(GroupPrepareData, "IfRequestHeader",
        <<StrVal(headerName), StrVal(condition), StrVal(value), StrVal(dynamicVar), toBeValue>>)

IfRequestHeaderSetCase(headerName, condition, value, caseStr) ==
    ResponseFuncConfig(GroupPrepareData, "IfRequestHeaderSetCase",
        <<StrVal(headerName), StrVal(condition), StrVal(value), StrVal(caseStr)>>)

IfRequestPathSetCase(condition, value, caseStr) ==
    ResponseFuncConfig(GroupPrepareData, "IfRequestPathSetCase",
        <<StrVal(condition), StrVal(value), StrVal(caseStr)>>)

SetJsonBody(caseStr, jsonBody) ==
    ResponseFuncConfig(GroupSetupResponse, "SetJsonBody", <<StrVal(caseStr), StrVal(jsonBody)>>)

SetStatusCode(caseStr, statusCode) ==
    ResponseFuncConfig(GroupSetupResponse, "SetStatusCode", <<StrVal(caseStr), NumVal(statusCode)>>)

IfRequestJsonBody(field, condition, value, dynamicVar, toBeValue) ==
    ResponseFuncConfig(GroupPrepareData, "IfRequestJsonBody",
        <<StrVal(field), StrVal(condition), value, StrVal(dynamicVar), toBeValue>>)

IfRequestJsonBodySetCase(field, condition, value, caseStr) ==
    ResponseFuncConfig(GroupPrepareData, "IfRequestJsonBodySetCase",
        <<StrVal(field), StrVal(condition), value, StrVal(caseStr)>>)

IfRequestPath(condition, value, dynamicVar, toBeValue) ==
    ResponseFuncConfig(GroupPrepareData, "IfRequestPath",
        <<StrVal(condition), StrVal(value), StrVal(dynamicVar), toBeValue>>)

Delete(dynamicVariable) ==
    ResponseFuncConfig(GroupDynamicVariable, "Delete", <<StrVal(dynamicVariable)>>)

ExtractRequestHeader(headerName, dynamicVar) ==
    ResponseFuncConfig(GroupPrepareData, "ExtractRequestHeader",
        <<StrVal(headerName), StrVal(dynamicVar)>>)

GenerateRandomInt(min, max, toDynamicVariable) ==
    ResponseFuncConfig(GroupGenerator, "GenerateRandomInt",
        <<NumVal(min), NumVal(max), StrVal(toDynamicVariable)>>)

GenerateRandomIntFixLength(length, toDynamicVariable) ==
    ResponseFuncConfig(GroupGenerator, "GenerateRandomIntFixLength",
        <<NumVal(length), StrVal(toDynamicVariable)>>)

SetHeader(caseStr, key, value) ==
    ResponseFuncConfig(GroupSetupResponse, "SetHeader",
        <<StrVal(caseStr), StrVal(key), StrVal(value)>>)

SetWait(caseStr, timeoutMs) ==
    ResponseFuncConfig(GroupSetupResponse, "SetWait", <<StrVal(caseStr), NumVal(timeoutMs)>>)

SetRandomWait(caseStr, minMs, maxMs) ==
    ResponseFuncConfig(GroupSetupResponse, "SetRandomWait",
                       <<StrVal(caseStr), NumVal(minMs), NumVal(maxMs)>>)

-----------------------------------------------------------------------------
(* Client library: control calls *)

\* A Go value encoding/json cannot encode (a channel, a function), which the
\* []interface{} of an instruction's arguments can hold
ChanVal == [t |-> "chan", v |-> 0]

RECURSIVE Marshalable(_)
Marshalable(x) ==
    CASE x.t = "chan" -> FALSE
      [] x.t = "array" -> \A i \in 1..Len(x.v) : Marshalable(x.v[i])
      [] x.t = "object" -> \A k \in DOMAIN x.v : Marshalable(x.v[k])
      [] OTHER -> TRUE

\* json.Marshal(reqBody) returns an error
MarshalFails(responseFuncs) ==
    \E i \in 1..Len(responseFuncs.list) :
        \E j \in 1..Len(responseFuncs.list[i].Args) : ~Marshalable(responseFuncs.list[i].Args[j])

\* The error a client method returns
NilError == [err |-> "nil", code |-> 0]
MarshalError == [err |-> "marshal", code |-> 0]
TransportError == [err |-> "transport", code |-> 0]
StatusError(code) == [err |-> "status", code |-> code]

\* What comes back from c.Client.Post: an error (connection refused, timeout)
\* or a response with a status code
TransportFailure == [failed |-> TRUE, status |-> 0]
HttpResponse(code) == [failed |-> FALSE, status |-> code]

StatusOK == 200

\* Mutant of Accepted: every 2xx status counts as success
AcceptedAny2xx(status) == status \in 200..299

\* resp.StatusCode != http.StatusOK is the failure test (lines 43, 62, 77)
Accepted(status) == status = StatusOK

\* A client method up to and including its POST: RegisterRoute and ResetPort
\* encode their request first and return the encoding error without posting
ClientCall(fn, args) == [fn |-> fn, args |-> args, done |-> FALSE, ret |-> NilError, posts |-> 0,
     reply |-> TransportFailure]

RegisterRoute ==
    /\ ~eval.done
    /\ eval.fn = "RegisterRoute"
    /\ eval.posts = 0
    /\ eval' = IF MarshalFails(eval.args[4])
               THEN [eval EXCEPT !.done = TRUE, !.ret = MarshalError]
               ELSE [eval EXCEPT !.posts = @ + 1]
    /\ UNCHANGED <<mockvars, testervars>>

\* map[string]int always encodes
ResetPort ==
    /\ ~eval.done
    /\ eval.fn = "ResetPort"
    /\ eval.posts = 0
    /\ eval' = [eval EXCEPT !.posts = @ + 1]
    /\ UNCHANGED <<mockvars, testervars>>

ResetAll ==
    /\ ~eval.done
    /\ eval.fn = "ResetAll"
    /\ eval.posts = 0
    /\ eval' = [eval EXCEPT !.posts = @ + 1]
    /\ UNCHANGED <<mockvars, testervars>>

\* Post has returned: the rest of the method is the same in all three
ClientReturn(reply) ==
    /\ ~eval.done
    /\ eval.fn \in {"RegisterRoute", "ResetPort", "ResetAll"}
    /\ eval.posts > 0
    /\ eval' = [eval EXCEPT
                   !.done = TRUE,
                   !.ret = IF reply.failed THEN TransportError
                           ELSE IF ~Accepted(reply.status) THEN StatusError(reply.status)
                           ELSE NilError,
                   !.reply = reply]
    /\ UNCHANGED <<mockvars, testervars>>

-----------------------------------------------------------------------------
(* Package v1: conditions *)

\* The condition keywords.  Package v1 takes them from the mock server's
\* package (part_001 lines 16-27); each is the text of its name.
ConditionNotEqual == <<"N", "o", "t", "E", "q", "u", "a", "l">>
ConditionContains == <<"C", "o", "n", "t", "a", "i", "n", "s">>
ConditionNotContains == <<"N", "o", "t", "C", "o", "n", "t", "a", "i", "n", "s">>
ConditionStartsWith == <<"S", "t", "a", "r", "t", "s", "W", "i", "t", "h">>
ConditionEndsWith == <<"E", "n", "d", "s", "W", "i", "t", "h">>
ConditionGreaterThan == <<"G", "r", "e", "a", "t", "e", "r", "T", "h", "a", "n">>
ConditionLessThan == <<"L", "e", "s", "s", "T", "h", "a", "n">>
ConditionGreaterThanOrEqual == ConditionGreaterThan \o <<"O", "r", "E", "q", "u", "a", "l">>
ConditionLessThanOrEqual == ConditionLessThan \o <<"O", "r", "E", "q", "u", "a", "l">>

\* strings.HasPrefix(s, prefix)
HasPrefix(s, prefix) == Len(s) >= Len(prefix) /\ SubSeq(s, 1, Len(prefix)) = prefix

isNumber(i) == i.t \in {"int", "number"}

toFloat64(i) == IF i.t \in {"int", "number"} THEN i.v ELSE 0

\* reflect.DeepEqual on decoded values: the dynamic types are the same and the
\* contents are equal, element by element
RECURSIVE DeepEqual(_, _)
DeepEqual(a, b) ==
    /\ a.t = b.t
    /\ CASE a.t = "nil" -> TRUE
         [] a.t = "array" ->
              /\ Len(a.v) = Len(b.v)
              /\ \A i \in 1..Len(a.v) : DeepEqual(a.v[i], b.v[i])
         [] a.t = "object" ->
              /\ DOMAIN a.v = DOMAIN b.v
              /\ \A k \in DOMAIN a.v : DeepEqual(a.v[k], b.v[k])
         [] OTHER -> a.v = b.v

\* Mutant of valuesEqual: operands are compared by their printed form
valuesEqualPrinted(a, b) ==
    IF a.t = "nil" \/ b.t = "nil" THEN a.t = "nil" /\ b.t = "nil"
    ELSE SprintV(a) = SprintV(b)

valuesEqual(a, b) ==
    IF a.t = "nil" \/ b.t = "nil" THEN a.t = "nil" /\ b.t = "nil"
    ELSE IF isNumber(a) /\ isNumber(b) THEN toFloat64(a) = toFloat64(b)
    ELSE DeepEqual(a, b)

\* Mutant of compareNumbers: numeric strings are parsed before the comparison
compareNumbersParsed(a, b, cmp) ==
    IF a.t = "nil" \/ b.t = "nil" THEN FALSE
    ELSE IF a.t \in {"int", "number", "string"} /\ b.t \in {"int", "number", "string"}
         THEN LET x == IF a.t = "string" THEN ParseFloat(a.v) ELSE a.v
                  y == IF b.t = "string" THEN ParseFloat(b.v) ELSE b.v
              IN  CASE cmp = ConditionGreaterThan -> x > y
                    [] cmp = ConditionLessThan -> x < y
                    [] cmp = ConditionGreaterThanOrEqual -> x >= y
                    [] OTHER -> x <= y
         ELSE FALSE

\* compareNumbers, the comparison cmp being named by its keyword
compareNumbers(a, b, cmp) ==
    IF a.t = "nil" \/ b.t = "nil" THEN FALSE
    ELSE IF isNumber(a) /\ isNumber(b)
         THEN CASE cmp = ConditionGreaterThan -> toFloat64(a) > toFloat64(b)
                [] cmp = ConditionLessThan -> toFloat64(a) < toFloat64(b)
                [] cmp = ConditionGreaterThanOrEqual -> toFloat64(a) >= toFloat64(b)
                [] OTHER -> toFloat64(a) <= toFloat64(b)
         ELSE FALSE

\* stringContains, the comparison cmp being named by its keyword
stringContains(a, b, cmp) ==
    IF a.t = "nil" \/ b.t = "nil" THEN FALSE
    ELSE LET x == SprintV(a)
             y == SprintV(b)
         IN  CASE cmp = ConditionContains -> Contains(x, y)
               [] cmp = ConditionNotContains -> ~Contains(x, y)
               [] cmp = ConditionStartsWith -> HasPrefix(x, y)
               [] OTHER -> HasSuffix(x, y)

evaluateCondition(actual, condition, expected) ==
    CASE condition = ConditionEqual -> valuesEqual(actual, expected)
      [] condition = ConditionNotEqual -> ~valuesEqual(actual, expected)
      [] condition \in {ConditionGreaterThan, ConditionLessThan,
                        ConditionGreaterThanOrEqual, ConditionLessThanOrEqual} ->
           compareNumbers(actual, expected, condition)
      [] condition \in {ConditionContains, ConditionNotContains,
                        ConditionStartsWith, ConditionEndsWith} ->
           stringContains(actual, expected, condition)
      [] OTHER -> FALSE

\* The interpreter's condition check, called on the same operands
ReturnCheckCondition ==
    /\ ~eval.done
    /\ eval.fn = "checkCondition"
    /\ eval' = [eval EXCEPT !.done = TRUE,
                            !.ret = checkCondition(eval.args[1], eval.args[2], eval.args[3])]
    /\ UNCHANGED <<mockvars, testervars>>

\* The call under evaluation returns
ReturnEvaluateCondition ==
    /\ ~eval.done
    /\ eval.fn = "evaluateCondition"
    /\ eval' = [eval EXCEPT !.done = TRUE,
                            !.ret = evaluateCondition(eval.args[1], eval.args[2], eval.args[3])]
    /\ UNCHANGED <<mockvars, testervars>>

-----------------------------------------------------------------------------
(* Package v1: JSON paths *)

\* strings.LastIndex for a one-character separator: 0 if absent
LastIndex(s, c) ==
    IF \E i \in 1..Len(s) : s[i] = c
    THEN CHOOSE i \in 1..Len(s) : s[i] = c /\ \A j \in (i + 1)..Len(s) : s[j] # c
    ELSE 0

\* Whether strconv.Atoi returns an error: the text is not an optionally
\* signed decimal literal
AtoiFails(s) ==
    LET signed == Len(s) > 0 /\ s[1] \in {"-", "+"}
        body == IF signed THEN Tail(s) ELSE s
    IN  ~(Len(body) > 0 /\ \A i \in 1..Len(body) : IsDigit(body[i]))

\* The results of getValueByPath: (value, nil) or (nil, error)
PathError == [ok |-> FALSE, v |-> NilVal]
PathValue(v) == [ok |-> TRUE, v |-> v]

\* The loop of getValueByPath (request.go lines 137-179)
RECURSIVE WalkValue(_, _)
WalkValue(current, parts) ==
    IF Len(parts) = 0 THEN PathValue(current)
    ELSE LET part == parts[1]
             indexed == Contains(part, <<"[">>) /\ HasSuffix(part, <<"]">>)
             open == IndexFrom(part, <<"[">>, 1)
             close == LastIndex(part, "]")
             key == IF indexed
                    THEN IF open - 1 > 0 THEN SubSeq(part, 1, open - 1) ELSE <<>>
                    ELSE part
             idxStr == SubSeq(part, open + 1, close - 1)
             index == IF indexed THEN Atoi(idxStr) ELSE -1
             keyed == IF key # <<>>
                      THEN IF current.t # "object" THEN PathError
                           ELSE IF key \notin DOMAIN current.v THEN PathError
                           ELSE PathValue(current.v[key])
                      ELSE PathValue(current)
         IN  IF indexed /\ AtoiFails(idxStr) THEN PathError
             ELSE IF ~keyed.ok THEN PathError
             ELSE IF index >= 0
                  THEN IF keyed.v.t # "array" THEN PathError
                       ELSE IF index >= Len(keyed.v.v) THEN PathError
                       ELSE WalkValue(keyed.v.v[index + 1], Tail(parts))
                  ELSE WalkValue(keyed.v, Tail(parts))

getValueByPath(data, path) == WalkValue(data, Split(path, "."))

\* The call under evaluation returns
ReturnGetValueByPath ==
    /\ ~eval.done
    /\ eval.fn = "getValueByPath"
    /\ eval' = [eval EXCEPT !.done = TRUE, !.ret = getValueByPath(eval.args[1], eval.args[2])]
    /\ UNCHANGED <<mockvars, testervars>>

-----------------------------------------------------------------------------
(* Inputs *)

Ports == {1, 2}
Methods == {"GET", "POST"}
PathA == <<"/", "a">>
PathB == <<"/", "b">>

HttpRequest(method, path, header) ==
    [Method |-> method, Path |-> path, Header |-> header, Query |-> EmptyMap, Body |-> NoBody]

CaseA == <<"A">>
CaseB == <<"B">>
HeaderT == <<"T">>

\* Instructions the interpreter is run on: response setup under the default
\* case and under two named cases, and case-setting conditions on a header
\* and on the path.
ExecAlphabet ==
    { SetStatusCode(<<>>, 201),
      SetStatusCode(CaseB, 202),
      SetJsonBody(<<>>, <<"d">>),
      SetJsonBody(CaseA, <<"a">>),
      SetHeader(CaseB, <<"X">>, <<"b">>),
      IfRequestHeaderSetCase(HeaderT, ConditionEqual, <<"B">>, CaseB),
      IfRequestPathSetCase(ConditionEqual, PathA, CaseA),
      IfRequestHeaderSetCase(HeaderT, ConditionEqual, <<"B">>, <<>>) }

ExecScripts == UNION {[1..n -> ExecAlphabet] : n \in 0..MaxScriptLen}

ExecRequests ==
    { HttpRequest("GET", path, header) :
        path \in {PathA, PathB},
        header \in {EmptyMap, MapSet(EmptyMap, HeaderT, <<"B">>)} }

\* Routes and scripts the controller is driven with
Script201 == Steps(<<SetStatusCode(<<>>, 201)>>)

\* Registrations: one route that is registered with three different scripts
\* (the nil list, the empty list, one instruction), a second method on the
\* same port, and a route on another port.
RegInputs ==
    { <<1, "GET", PathA, Script201>>, <<1, "GET", PathA, Steps(<<>>)>>,
      <<1, "GET", PathA, NilSteps>>, <<1, "POST", PathB, Script201>>,
      <<2, "GET", PathA, Script201>> }

\* Requests: the registered routes and their neighbours that differ in the
\* path, in the method or in the port only.
ReqKeys == { <<1, "GET", PathA>>, <<1, "GET", PathB>>, <<1, "POST", PathA>>, <<2, "GET", PathA>> }

-----------------------------------------------------------------------------
(* Package v1: the Tester, its stages and the actions recorded for them *)

\* Goroutines calling the Tester at the same time: the front-end starts
\* every stage run and the discovery dry run in a goroutine of its own
Callers == 1..MaxCallers

\* What a stage function does, one operation after the other: the helper
\* Sleep(d), Fail(msg), and panic(v) with a v that is no TestError
Op(op, arg) == [op |-> op, arg |-> arg]

NilFunc == [nil |-> TRUE, ops |-> <<>>]
StageFunc(ops) == [nil |-> FALSE, ops |-> ops]
StageDef(name, fn) == [Name |-> name, Func |-> fn]
\* Func is the closure that repeats the helper: the helper's name stands for it
Action(summary, fn) == [Summary |-> summary, Func |-> fn]

NoPanic == [type |-> "", Message |-> ""]
TestError(msg) == [type |-> "TestError", Message |-> msg]
\* a panic value of any other type, and the nil function call of a stage without Func
PanicValue(v) == [type |-> "string", Message |-> v]
NilDereference == [type |-> "runtime.Error", Message |-> "nil pointer dereference"]

\* The errors of RunStageByName: what fmt.Errorf formats, kept as format and argument
NoError == [format |-> "", arg |-> ""]
Errorf(format, arg) == [format |-> format, arg |-> arg]

\* A caller's position: fn is the Tester method it is in, name the stage,
\* ops what is left of the stage function, rest what is left of
\* DryRunAll's loop.  pc is "idle", "loop" (DryRunAll between two stages),
\* "body" (in the stage function), "sleep" (in Sleep, after RecordAction)
\* or "done".  failed, delays and overlapped are history: the message of
\* the first Fail the stage called, the delays Sleep really made, and
\* whether another caller was in a call at any time during this one.
NoCall ==
    [fn |-> "", name |-> "", ops |-> <<>>, rest |-> <<>>, pc |-> "idle",
     panic |-> NoPanic, err |-> NoError, ran |-> FALSE,
     failed |-> "", delays |-> 0, overlapped |-> FALSE]

InCall(g) == calls[g].pc \notin {"idle", "done"}

\* g enters the call c: it overlaps every call in progress
Enter(g, c) ==
    [h \in Callers |->
        IF h = g THEN [c EXCEPT !.overlapped = \E o \in Callers \ {g} : InCall(o)]
        ELSE IF InCall(h) THEN [calls[h] EXCEPT !.overlapped = TRUE]
        ELSE calls[h]]

AtOp(g, op) ==
    /\ calls[g].pc = "body"
    /\ calls[g].panic = NoPanic
    /\ calls[g].ops # <<>>
    /\ Head(calls[g].ops).op = op

\* The stage function has returned or panicked: the deferred functions run
AtDefer(g) ==
    /\ calls[g].pc = "body"
    /\ calls[g].panic # NoPanic \/ calls[g].ops = <<>>

IsDryRun == isDryRun

\* The new stageActions
RecordAction(summary, fn) ==
    IF ~isRecording \/ currentStage = "" THEN stageActions
    ELSE [stageActions EXCEPT ![currentStage] = Append(@, Action(summary, fn))]

GetStageActions(stageName) == stageActions[stageName]

Stage(name, fn) ==
    /\ Len(Stages) < MaxStages
    /\ Stages' = Append(Stages, StageDef(name, fn))
    /\ UNCHANGED <<mockvars, eval, stageActions, currentStage, isRecording, isDryRun, calls>>

\* The Func of the first stage called name, nil if there is none
FindStage(name) ==
    LET found == {i \in DOMAIN Stages : Stages[i].Name = name}
    IN  IF found = {} THEN NilFunc
        ELSE Stages[CHOOSE i \in found : \A j \in found : i <= j].Func

\* Up to the call of the stage function
RunStageByName(g, name) ==
    /\ ~InCall(g)
    /\ LET fn == FindStage(name)
           c == [NoCall EXCEPT !.fn = "RunStageByName", !.name = name]
       IN  IF fn.nil
           THEN /\ calls' = Enter(g, [c EXCEPT !.pc = "done",
                                               !.err = Errorf("stage %s not found", name)])
                /\ UNCHANGED <<stageActions, currentStage, isRecording>>
           ELSE /\ currentStage' = name
                /\ isRecording' = TRUE
                /\ stageActions' = [stageActions EXCEPT ![name] = <<>>]
                /\ calls' = Enter(g, [c EXCEPT !.pc = "body", !.ops = fn.ops, !.ran = TRUE])
    /\ UNCHANGED <<mockvars, eval, Stages, isDryRun>>

\* The error the deferred recover leaves in err
Recovered(r) ==
    IF r = NoPanic THEN NoError
    ELSE IF r.type = "TestError" THEN Errorf("failed: %s", r.Message)
    ELSE Errorf("panic: %v", r.Message)

\* The two deferred functions of RunStageByName, and its return
ReturnRunStageByName(g) ==
    /\ calls[g].fn = "RunStageByName"
    /\ AtDefer(g)
    /\ isRecording' = FALSE
    /\ currentStage' = ""
    /\ calls' = [calls EXCEPT ![g].pc = "done", ![g].err = Recovered(calls[g].panic),
                              ![g].panic = NoPanic]
    /\ UNCHANGED <<mockvars, eval, Stages, stageActions, isDryRun>>

\* Sleep, up to the return of RecordAction
Sleep(g) ==
    /\ AtOp(g, "Sleep")
    /\ stageActions' = RecordAction("Sleep", "Sleep")
    /\ calls' = [calls EXCEPT ![g].pc = "sleep"]
    /\ UNCHANGED <<mockvars, eval, Stages, currentStage, isRecording, isDryRun>>

\* The rest of Sleep: the delay, unless in a dry run
SleepDelay(g) ==
    /\ calls[g].pc = "sleep"
    /\ calls' = [calls EXCEPT ![g].pc = "body", ![g].ops = Tail(@),
                              ![g].delays = IF IsDryRun THEN @ ELSE @ + 1]
    /\ UNCHANGED <<mockvars, eval, Stages, stageActions, currentStage, isRecording, isDryRun>>

Fail(g) ==
    /\ AtOp(g, "Fail")
    /\ calls' = [calls EXCEPT ![g].panic = IF IsDryRun THEN @ ELSE TestError(Head(calls[g].ops).arg),
                              ![g].ops = IF IsDryRun THEN Tail(@) ELSE @,
                              ![g].failed = IF @ = "" THEN Head(calls[g].ops).arg ELSE @]
    /\ UNCHANGED <<mockvars, eval, Stages, stageActions, currentStage, isRecording, isDryRun>>

\* The stage function panics with a value that is no TestError
StagePanics(g) ==
    /\ AtOp(g, "panic")
    /\ calls' = [calls EXCEPT ![g].panic = PanicValue(Head(calls[g].ops).arg)]
    /\ UNCHANGED <<mockvars, eval, Stages, stageActions, currentStage, isRecording, isDryRun>>

\* The loop of DryRunAll ranges over the stages registered when it starts
DryRunAll(g) ==
    /\ ~InCall(g)
    /\ calls' = Enter(g, [NoCall EXCEPT !.fn = "DryRunAll", !.rest = Stages,
                                        !.pc = IF Stages = <<>> THEN "done" ELSE "loop"])
    /\ UNCHANGED <<mockvars, eval, Stages, stageActions, currentStage, isRecording, isDryRun>>

\* Up to the call of s.Func, which panics at once if Func is nil.  Called
\* by the program, or by DryRunAll for the next stage of its loop.
DryRunStage(g, s) ==
    /\ \/ ~InCall(g)
       \/ calls[g].pc = "loop" /\ s = Head(calls[g].rest)
    /\ currentStage' = s.Name
    /\ isRecording' = TRUE
    /\ isDryRun' = TRUE
    /\ stageActions' = [stageActions EXCEPT ![s.Name] = <<>>]
    /\ LET c == [NoCall EXCEPT !.name = s.Name, !.pc = "body", !.ops = s.Func.ops,
                               !.ran = TRUE,
                               !.panic = IF s.Func.nil THEN NilDereference ELSE NoPanic]
       IN  calls' = IF InCall(g)
                    THEN [calls EXCEPT ![g] = [c EXCEPT !.fn = "DryRunAll",
                                                        !.rest = Tail(calls[g].rest),
                                                        !.overlapped = calls[g].overlapped]]
                    ELSE Enter(g, [c EXCEPT !.fn = "DryRunStage"])
    /\ UNCHANGED <<mockvars, eval, Stages>>

\* The deferred function of DryRunStage and its return: to DryRunAll's
\* loop, or to the program after the last stage
ReturnDryRunStage(g) ==
    /\ calls[g].fn \in {"DryRunStage", "DryRunAll"}
    /\ AtDefer(g)
    /\ isRecording' = FALSE
    /\ isDryRun' = FALSE
    /\ currentStage' = ""
    /\ calls' = [calls EXCEPT ![g].pc = IF calls[g].rest # <<>> THEN "loop" ELSE "done",
                              ![g].panic = NoPanic]
    /\ UNCHANGED <<mockvars, eval, Stages, stageActions>>

\* The stage names of the model, and NewTester with nothing run yet
StageNames == {"A", "B", "N"}

TesterIdle ==
    /\ Stages = <<>>
    /\ stageActions = [n \in StageNames |-> <<>>]
    /\ currentStage = ""
    /\ isRecording = FALSE
    /\ isDryRun = FALSE
    /\ calls = [g \in Callers |-> NoCall]

-----------------------------------------------------------------------------
(* Specifications *)

\* No library call under evaluation
NoEval == [fn |-> "", args |-> <<>>, done |-> TRUE, ret |-> <<>>]
LibIdle == eval = NoEval /\ TesterIdle

NoCalls ==
    [n |-> 0, active |-> <<>>, last |-> Response("", 0), resetRet |-> {},
     lastReg |-> NoRegistration, answered |-> <<>>]

\* The controller after NewMockController, no request yet
Init ==
    /\ Routes = EmptyMap
    /\ Servers = EmptyMap
    /\ inst = <<>>
    /\ bound = [p \in Ports |-> 0]
    /\ ctl = NoCalls
    /\ LibIdle
    /\ reqs = <<>>

Next ==
    \/ \E k \in RegInputs : handleRegisterRoute(k[1], k[2], k[3], k[4])
    \/ \E p \in Ports : handleResetPort([port |-> p])
    \/ handleResetAll
    \/ \E id \in DOMAIN inst : ListenAndServe(id)
    \/ \E c \in DOMAIN ctl.active, id \in DOMAIN inst : ShutdownBegin(c, id)
    \/ \E c \in DOMAIN ctl.active, id \in DOMAIN inst : ShutdownEnd(c, id)
    \/ \E c \in DOMAIN ctl.active : ResetReturn(c)
    \/ \E k \in ReqKeys : Arrive(k[1], HttpRequest(k[2], k[3], EmptyMap))
    \/ \E i \in DOMAIN reqs : Lookup(i)
    \/ \E i \in DOMAIN reqs : ExecStep(i)
    \/ \E i \in DOMAIN reqs : FinalizeReq(i)

Spec == Init /\ [][Next]_vars

\* The controller with the progress its goroutines make by themselves: a
\* reset handler that has left its locked section goes on to call Shutdown,
\* Shutdown returns when its listener is idle or its 5 s context expires,
\* and the handler then answers.  Nothing is assumed of the requests to the
\* mock listeners: a handler may stay in a script forever.
Progress ==
    /\ WF_vars(\E c \in DOMAIN ctl.active, id \in DOMAIN inst : ShutdownBegin(c, id))
    /\ WF_vars(\E c \in DOMAIN ctl.active, id \in DOMAIN inst : ShutdownEnd(c, id))
    /\ WF_vars(\E c \in DOMAIN ctl.active : ResetReturn(c))

\* The registrations and requests of the runs with progress: one route on each port
LiveRegs == {k \in RegInputs : k[2] = "GET" /\ k[3] = PathA /\ k[4] = Script201}
LiveKeys == {k \in ReqKeys : k[2] = "GET" /\ k[3] = PathA}

NextLive ==
    \/ \E k \in LiveRegs : handleRegisterRoute(k[1], k[2], k[3], k[4])
    \/ \E p \in Ports : handleResetPort([port |-> p])
    \/ handleResetAll
    \/ \E id \in DOMAIN inst : ListenAndServe(id)
    \/ \E c \in DOMAIN ctl.active, id \in DOMAIN inst : ShutdownBegin(c, id)
    \/ \E c \in DOMAIN ctl.active, id \in DOMAIN inst : ShutdownEnd(c, id)
    \/ \E c \in DOMAIN ctl.active : ResetReturn(c)
    \/ \E k \in LiveKeys : Arrive(k[1], HttpRequest(k[2], k[3], EmptyMap))
    \/ \E i \in DOMAIN reqs : Lookup(i)
    \/ \E i \in DOMAIN reqs : ExecStep(i)
    \/ \E i \in DOMAIN reqs : FinalizeReq(i)

SpecLive == Init /\ [][NextLive]_vars /\ Progress

\* The interpreter alone: NewHandlerExecutor(w, r) followed by Execute(steps)
\* and Finalize(), for every script and request of the bounded input sets.
InitExec ==
    /\ Routes = EmptyMap
    /\ Servers = EmptyMap
    /\ inst = <<>>
    /\ bound = [p \in Ports |-> 0]
    /\ ctl = NoCalls
    /\ LibIdle
    /\ \E list \in ExecScripts, r \in ExecRequests :
          reqs = << [NewRequest(1, r, 1, FALSE) EXCEPT
                       !.pc = "exec", !.steps = Steps(list), !.idx = 1] >>

NextExec ==
    \/ \E i \in DOMAIN reqs : ExecStep(i)
    \/ \E i \in DOMAIN reqs : FinalizeReq(i)

SpecExec == InitExec /\ [][NextExec]_vars


\* Concurrent requests: port 1 listens, GET /a is registered with a script
\* that generates a value, sets a case and renders the value, and two
\* requests have been accepted.  The route may be registered again meanwhile.
VarX == <<"X">>

ScriptGen ==
    Steps(<< GenerateRandomInt(1, 2, VarX),
             IfRequestHeaderSetCase(HeaderT, ConditionEqual, <<"B">>, CaseB),
             SetJsonBody(<<>>, <<"d", "{", "{", ".", "X", "}", "}">>),
             SetJsonBody(CaseB, <<"b", "{", "{", ".", "X", "}", "}">>) >>)

ScriptEcho ==
    Steps(<< ExtractRequestHeader(HeaderT, VarX),
             SetJsonBody(<<>>, <<"e", "{", "{", ".", "X", "}", "}">>) >>)

ServeScripts == {ScriptGen, ScriptEcho}

ServeRequests ==
    {HttpRequest("GET", PathA, header) : header \in {EmptyMap, MapSet(EmptyMap, HeaderT, <<"B">>)}}

InitServe ==
    /\ \E s \in ServeScripts :
          /\ Routes = RegisterRoutes(EmptyMap, 1, "GET", PathA, s)
          /\ ctl = [NoCalls EXCEPT !.n = 1,
                                   !.last = Response("registerRoute", 200),
                                   !.lastReg = Registered(NoRegistration, <<1, "GET", PathA, s>>),
                                   !.answered = <<200>>]
    /\ LibIdle
    /\ Servers = MapSet(EmptyMap, 1, 1)
    /\ inst = <<[NewInstance(1) EXCEPT !.state = "listening"]>>
    /\ bound = [p \in Ports |-> IF p = 1 THEN 1 ELSE 0]
    /\ \E r1 \in ServeRequests, r2 \in ServeRequests :
          reqs = <<NewRequest(1, r1, 1, FALSE), NewRequest(1, r2, 1, FALSE)>>

NextServe ==
    \/ \E s \in ServeScripts : handleRegisterRoute(1, "GET", PathA, s)
    \/ \E i \in DOMAIN reqs : Lookup(i)
    \/ \E i \in DOMAIN reqs : ExecStep(i)
    \/ \E i \in DOMAIN reqs : FinalizeReq(i)

SpecServe == InitServe /\ [][NextServe]_vars

\* Scripts with a body template, instructions that bind and delete the
\* variable it refers to, and instructions as a caller of the control API can
\* post them: with arguments missing or of the wrong type.
TemplatePrefix == <<"{", "\"", "v", "\"", ":", "\"">>
TemplateSuffix == <<"\"", "}">>
TemplateV == TemplatePrefix \o <<"{", "{", ".", "X", "}", "}">> \o TemplateSuffix

SetStatusCodeNoCode == ResponseFuncConfig(GroupSetupResponse, "SetStatusCode", <<StrVal(<<>>)>>)
SetStatusCodeText ==
    ResponseFuncConfig(GroupSetupResponse, "SetStatusCode", <<StrVal(<<>>), StrVal(<<"a", "b", "c">>)>>)
GenerateRandomIntNoArgs == ResponseFuncConfig(GroupGenerator, "GenerateRandomInt", <<>>)
DeleteNoArgs == ResponseFuncConfig(GroupDynamicVariable, "Delete", <<>>)
IfRequestHeaderTwoArgs ==
    ResponseFuncConfig(GroupPrepareData, "IfRequestHeader", <<StrVal(HeaderT), StrVal(ConditionEqual)>>)

MalformedInstructions ==
    {SetStatusCodeNoCode, SetStatusCodeText, GenerateRandomIntNoArgs, DeleteNoArgs,
     IfRequestHeaderTwoArgs}

ScriptAlphabet ==
    { SetJsonBody(<<>>, TemplateV),
      IfRequestPath(ConditionEqual, PathA, VarX, StrVal(<<"h", "i">>)),
      Delete(VarX) } \cup MalformedInstructions

InitScript ==
    /\ Routes = EmptyMap
    /\ Servers = EmptyMap
    /\ inst = <<>>
    /\ bound = [p \in Ports |-> 0]
    /\ ctl = NoCalls
    /\ LibIdle
    /\ \E list \in UNION {[1..n -> ScriptAlphabet] : n \in 0..MaxScriptLen},
          path \in {PathA, PathB} :
          reqs = << [NewRequest(1, HttpRequest("GET", path, EmptyMap), 1, FALSE) EXCEPT
                       !.pc = "exec", !.steps = Steps(list), !.idx = 1] >>

SpecScript == InitScript /\ [][NextExec]_vars

\* Conditions on the JSON body: requests without body, with a body that is
\* not JSON, with {"k":"hi"} and with {"k":["hi"]}; paths that resolve in
\* some of them and paths that do not; right operands "hi", null and "<nil>".
KeyK == <<"k">>
BodyText == JsonBody(ObjVal(MapSet(EmptyMap, KeyK, StrVal(<<"h", "i">>))))
BodyList == JsonBody(ObjVal(MapSet(EmptyMap, KeyK, ArrVal(<<StrVal(<<"h", "i">>)>>))))

JsonBodies == {NoBody, InvalidBody, BodyText, BodyList}

PathK == <<"k">>
PathK0 == <<"k", "[", "0", "]">>
PathK1 == <<"k", "[", "1", "]">>
PathKQ == <<"k", ".", "q">>
PathQ == <<"q">>
JsonPaths == {PathK, PathK0, PathK1, PathKQ, PathQ}

Operands == {StrVal(<<"h", "i">>), NilVal, StrVal(<<"<", "n", "i", "l", ">">>)}

JsonAlphabet ==
    {IfRequestJsonBody(path, ConditionEqual, v, VarX, StrVal(<<"h", "i">>)) :
        path \in JsonPaths, v \in Operands}
    \cup {IfRequestJsonBodySetCase(path, ConditionEqual, v, CaseA) :
        path \in JsonPaths, v \in Operands}

InitJson ==
    /\ Routes = EmptyMap
    /\ Servers = EmptyMap
    /\ inst = <<>>
    /\ bound = [p \in Ports |-> 0]
    /\ ctl = NoCalls
    /\ LibIdle
    /\ \E list \in UNION {[1..n -> JsonAlphabet] : n \in 0..MaxJsonScriptLen},
          body \in JsonBodies :
          reqs = << [NewRequest(1, [HttpRequest("POST", PathA, EmptyMap) EXCEPT !.Body = body],
                                1, FALSE) EXCEPT
                       !.pc = "exec", !.steps = Steps(list), !.idx = 1] >>

SpecJson == InitJson /\ [][NextExec]_vars

\* JSON paths: the document {"a":1,"b":{"c":2},"d":[3,4]} and the array
\* [3,4]; paths of one to MaxPathSegs segments, a segment being a key, a key
\* with a bracket index, or a bracket index alone.
Document ==
    ObjVal([k \in {<<"a">>, <<"b">>, <<"d">>} |->
               CASE k = <<"a">> -> NumVal(1)
                 [] k = <<"b">> -> ObjVal(MapSet(EmptyMap, <<"c">>, NumVal(2)))
                 [] OTHER -> ArrVal(<<NumVal(3), NumVal(4)>>)])

Documents == {Document, ArrVal(<<NumVal(3), NumVal(4)>>)}

NoIndex == {}
Segment(key, idx) == [key |-> key, idx |-> idx]

Segments ==
    {Segment(<<k>>, NoIndex) : k \in {"a", "b", "c", "d", "x", "y"}}
    \cup {Segment(key, {n}) : key \in {<<"d">>, <<"a">>, <<>>}, n \in -1..2}

SegmentText(seg) ==
    IF seg.idx = NoIndex THEN seg.key
    ELSE seg.key \o <<"[">> \o FormatInt(CHOOSE n \in seg.idx : TRUE) \o <<"]">>

RECURSIVE PathText(_)
PathText(segs) ==
    IF Len(segs) = 1 THEN SegmentText(segs[1])
    ELSE SegmentText(segs[1]) \o <<".">> \o PathText(Tail(segs))

PathInputs == UNION {[1..n -> Segments] : n \in 1..MaxPathSegs}

InitPath ==
    /\ Routes = EmptyMap
    /\ Servers = EmptyMap
    /\ inst = <<>>
    /\ bound = [p \in Ports |-> 0]
    /\ ctl = NoCalls
    /\ reqs = <<>>
    /\ TesterIdle
    /\ \E data \in Documents, segs \in PathInputs :
          eval = [fn |-> "getValueByPath", args |-> <<data, PathText(segs)>>,
                  done |-> FALSE, ret |-> <<>>]

NextPath == ReturnGetValueByPath

SpecPath == InitPath /\ [][NextPath]_vars


\* Conditions: operands of every dynamic type (null, int, float64, string,
\* bool, slice), among them the number 5 as int and as float64 and the
\* string "5"; every keyword, an unknown keyword and the empty keyword.
CondValues ==
    { NilVal, IntVal(5), NumVal(5), NumVal(3), StrVal(<<"5">>), StrVal(<<"5", "3">>),
      BoolVal(TRUE), ArrVal(<<NumVal(5)>>), ArrVal(<<IntVal(5)>>) }

\* The operands a script and a request can hand to the interpreter: what
\* encoding/json decodes to (no int)
JsonValues == {v \in CondValues : v.t # "int" /\ v # ArrVal(<<IntVal(5)>>)}

OrderingKeywords ==
    {ConditionGreaterThan, ConditionLessThan, ConditionGreaterThanOrEqual,
     ConditionLessThanOrEqual}

Keywords ==
    {ConditionEqual, ConditionNotEqual, ConditionContains, ConditionNotContains,
     ConditionStartsWith, ConditionEndsWith} \cup OrderingKeywords

UnknownKeyword == <<"L", "i", "k", "e">>

InitCond ==
    /\ Routes = EmptyMap
    /\ Servers = EmptyMap
    /\ inst = <<>>
    /\ bound = [p \in Ports |-> 0]
    /\ ctl = NoCalls
    /\ reqs = <<>>
    /\ TesterIdle
    /\ \/ \E a \in CondValues, b \in CondValues, k \in Keywords \cup {UnknownKeyword, <<>>} :
             eval = [fn |-> "evaluateCondition", args |-> <<a, k, b>>,
                     done |-> FALSE, ret |-> <<>>]
       \/ \E a \in JsonValues, b \in JsonValues, k \in Keywords \cup {UnknownKeyword, <<>>} :
             eval = [fn |-> "checkCondition", args |-> <<a, k, b>>,
                     done |-> FALSE, ret |-> <<>>]

NextCond ==
    \/ ReturnEvaluateCondition
    \/ ReturnCheckCondition

SpecCond == InitCond /\ [][NextCond]_vars

\* Control calls of the client: ports 0 (what the test posts as a bad
\* request), 1 and 2; instruction lists that encode and one that does not;
\* every kind of answer: no answer, 200, another 2xx, and the controller's
\* error statuses.
ScriptChan == Steps(<<IfRequestHeader(HeaderT, ConditionEqual, <<"B">>, VarX, ChanVal)>>)

ClientCalls ==
    {ClientCall("RegisterRoute", <<port, method, path, steps>>) :
        port \in {0} \cup Ports, method \in Methods, path \in {PathA, PathB},
        steps \in {NilSteps, Steps(<<>>), Script201, ScriptChan}}
    \cup {ClientCall("ResetPort", <<port>>) : port \in {0} \cup Ports}
    \cup {ClientCall("ResetAll", <<>>)}

Replies == {TransportFailure} \cup {HttpResponse(code) : code \in {200, 204, 400, 404, 405, 500}}

InitClient ==
    /\ Routes = EmptyMap
    /\ Servers = EmptyMap
    /\ inst = <<>>
    /\ bound = [p \in Ports |-> 0]
    /\ ctl = NoCalls
    /\ reqs = <<>>
    /\ TesterIdle
    /\ eval \in ClientCalls

NextClient ==
    \/ RegisterRoute
    \/ ResetPort
    \/ ResetAll
    \/ \E reply \in Replies : ClientReturn(reply)

SpecClient == InitClient /\ [][NextClient]_vars

\* The Tester: stages are registered, run by name and dry-run by any of
\* the callers, in any interleaving of their steps
StagePool ==
    { StageDef("A", StageFunc(<<Op("Sleep", ""), Op("Fail", "m1"), Op("Sleep", "")>>)),
      StageDef("A", StageFunc(<<Op("Sleep", "")>>)),
      StageDef("B", StageFunc(<<Op("Sleep", ""), Op("panic", "crash")>>)),
      StageDef("N", NilFunc) }

RunNames == StageNames \cup {"X"}

NextTester ==
    \/ \E s \in StagePool : Stage(s.Name, s.Func)
    \/ \E g \in Callers, name \in RunNames : RunStageByName(g, name)
    \/ \E g \in Callers : ReturnRunStageByName(g)
    \/ \E g \in Callers : Sleep(g)
    \/ \E g \in Callers : SleepDelay(g)
    \/ \E g \in Callers : Fail(g)
    \/ \E g \in Callers : StagePanics(g)
    \/ \E g \in Callers : DryRunAll(g)
    \/ \E g \in Callers, i \in DOMAIN Stages : DryRunStage(g, Stages[i])
    \/ \E g \in Callers : ReturnDryRunStage(g)

SpecTester == Init /\ [][NextTester]_vars

\* The control plane alone, driven with raw requests: the three endpoints
\* and an unknown path, POST and GET, bodies that decode and bodies that do
\* not.  resetPort and resetAll do not look at the method.
ControlRegistrations ==
    { RegisterRouteRequest(1, "GET", PathA, Script201),
      RegisterRouteRequest(1, "POST", PathB, NilSteps) }

ControlRequests ==
    {ControlRequest("/registerRoute", "POST", b) :
        b \in {BadJson} \cup {Decoded(k) : k \in ControlRegistrations}}
    \cup {ControlRequest("/registerRoute", "GET", b) :
        b \in {BadJson, Decoded(RegisterRouteRequest(1, "GET", PathA, Script201))}}
    \cup {ControlRequest("/resetPort", m, Decoded([port |-> 1])) : m \in Methods}
    \cup {ControlRequest("/resetPort", "POST", BadJson),
          ControlRequest("/resetAll", "POST", BadJson),
          ControlRequest("/", "GET", BadJson),
          ControlRequest("/registerRoutes", "POST",
                         Decoded(RegisterRouteRequest(1, "GET", PathA, Script201)))}

NextControl ==
    \/ \E r \in ControlRequests : ServeControl(r)
    \/ \E id \in DOMAIN inst : ListenAndServe(id)
    \/ \E c \in DOMAIN ctl.active, id \in DOMAIN inst : ShutdownBegin(c, id)
    \/ \E c \in DOMAIN ctl.active, id \in DOMAIN inst : ShutdownEnd(c, id)
    \/ \E c \in DOMAIN ctl.active : ResetReturn(c)

SpecControl == Init /\ [][NextControl]_vars

\* Generators: GenerateRandomInt on pairs min <= max taken from the ends and
\* the middle of the range of int, and GenerateRandomIntFixLength on lengths
\* 1..MaxDigits.
IntSamples == {MinInt, MinInt + 1, -100, -1, 0, 1, 9, 100, MaxInt - 1, MaxInt}

GeneratorAlphabet ==
    {GenerateRandomInt(pair[1], pair[2], VarX) :
        pair \in {p \in IntSamples \X IntSamples : p[1] <= p[2]}}
    \cup {GenerateRandomIntFixLength(n, VarX) : n \in 1..MaxDigits}

InitGenerator ==
    /\ Routes = EmptyMap
    /\ Servers = EmptyMap
    /\ inst = <<>>
    /\ bound = [p \in Ports |-> 0]
    /\ ctl = NoCalls
    /\ LibIdle
    /\ \E f \in GeneratorAlphabet :
          reqs = << [NewRequest(1, HttpRequest("GET", PathA, EmptyMap), 1, FALSE) EXCEPT
                       !.pc = "exec", !.steps = Steps(<<f>>), !.idx = 1] >>

SpecGenerator == InitGenerator /\ [][NextExec]_vars

\* Header templates: a header whose value refers to a variable, and
\* instructions that bind the variable to one value or another and delete it
HeaderH == <<"H">>
HeaderPrefix == <<"v", "=">>
HeaderTemplate == HeaderPrefix \o <<"{", "{", ".", "X", "}", "}">>

HeaderAlphabet ==
    { SetHeader(<<>>, HeaderH, HeaderTemplate),
      IfRequestPath(ConditionEqual, PathA, VarX, StrVal(<<"h", "i">>)),
      IfRequestPath(ConditionEqual, PathA, VarX, StrVal(<<"y", "o">>)),
      Delete(VarX) }

InitHeader ==
    /\ Routes = EmptyMap
    /\ Servers = EmptyMap
    /\ inst = <<>>
    /\ bound = [p \in Ports |-> 0]
    /\ ctl = NoCalls
    /\ LibIdle
    /\ \E list \in UNION {[1..n -> HeaderAlphabet] : n \in 0..MaxScriptLen} :
          reqs = << [NewRequest(1, HttpRequest("GET", PathA, EmptyMap), 1, FALSE) EXCEPT
                       !.pc = "exec", !.steps = Steps(list), !.idx = 1] >>

SpecHeader == InitHeader /\ [][NextExec]_vars

\* Waits: scripts of one or two instructions, SetRandomWait on every pair
\* 0 <= min <= max <= MaxWait and SetWait, in the default case
WaitAlphabet ==
    {SetRandomWait(<<>>, pair[1], pair[2]) :
        pair \in {p \in (0..MaxWait) \X (0..MaxWait) : p[1] <= p[2]}}
    \cup {SetWait(<<>>, 2)}

WaitScripts == UNION {[1..n -> WaitAlphabet] : n \in 1..2}

InitWait ==
    /\ Routes = EmptyMap
    /\ Servers = EmptyMap
    /\ inst = <<>>
    /\ bound = [p \in Ports |-> 0]
    /\ ctl = NoCalls
    /\ LibIdle
    /\ \E list \in WaitScripts :
          reqs = << [NewRequest(1, HttpRequest("GET", PathA, EmptyMap), 1, FALSE) EXCEPT
                       !.pc = "exec", !.steps = Steps(list), !.idx = 1] >>

SpecWait == InitWait /\ [][NextExec]_vars

\* The two JSON path lookups on the same inputs: the documents of the path
\* specification, a document with a null member and the null document;
\* paths of keys and bracket indices, and paths whose bracket does not hold
\* a number.
LookupDocuments ==
    Documents \cup {ObjVal(MapSet(EmptyMap, <<"a">>, NilVal)), NilVal}

OddPaths ==
    { <<"d", "[", "x", "]">>, <<"d", "[", "]">>, <<"d", "[", "0", "]", "[", "1", "]">>,
      <<"d", "[", "0", "]", "x">>, <<"d", "[", "+", "1", "]">> }

LookupPaths == {PathText(segs) : segs \in PathInputs} \cup OddPaths

\* A request whose body decodes to the document
RequestWithBody(data) ==
    [HttpRequest("POST", PathA, EmptyMap) EXCEPT !.Body = JsonBody(data)]

\* The interpreter's lookup under evaluation returns
ReturnGetJSONPath ==
    /\ ~eval.done
    /\ eval.fn = "getJSONPath"
    /\ eval' = [eval EXCEPT !.done = TRUE,
                            !.ret = getJSONPath(RequestWithBody(eval.args[1]), eval.args[2])]
    /\ UNCHANGED <<mockvars, testervars>>

InitLookup ==
    /\ Routes = EmptyMap
    /\ Servers = EmptyMap
    /\ inst = <<>>
    /\ bound = [p \in Ports |-> 0]
    /\ ctl = NoCalls
    /\ reqs = <<>>
    /\ TesterIdle
    /\ \E fn \in {"getJSONPath", "getValueByPath"}, data \in LookupDocuments,
          path \in LookupPaths :
          eval = [fn |-> fn, args |-> <<data, path>>, done |-> FALSE, ret |-> <<>>]

NextLookup ==
    \/ ReturnGetJSONPath
    \/ ReturnGetValueByPath

SpecLookup == InitLookup /\ [][NextLookup]_vars

-----------------------------------------------------------------------------
(* Properties of the interpreter *)

IsSetup(f) == f.Group = GroupSetupResponse
IsSetCase(f) == f.Func \in {"IfRequestHeaderSetCase", "IfRequestPathSetCase"}
Label(f) == IF IsSetup(f) THEN f.Args[1].v ELSE f.Args[Len(f.Args)].v

\* The condition of a case-setting instruction, as the script author reads it:
\* Equal on the header value ("" when the header is absent) or on the path.
ConditionHolds(f, r) ==
    CASE f.Func = "IfRequestHeaderSetCase" ->
           f.Args[2].v = ConditionEqual /\ Get(r.Header, f.Args[1].v) = f.Args[3].v
      [] f.Func = "IfRequestPathSetCase" ->
           f.Args[1].v = ConditionEqual /\ r.Path = f.Args[2].v
      [] OTHER -> FALSE

NoCaseHeld(list, r) == \A k \in 1..Len(list) : ~(IsSetCase(list[k]) /\ ConditionHolds(list[k], r))

\* The response a script describes when only its default-case instructions
\* count: the last default status (200 if none), the last default body ("" if
\* none), the default headers.
RECURSIVE DefaultResponse(_)
DefaultResponse(list) ==
    IF Len(list) = 0
    THEN [status |-> 200, body |-> <<>>, headers |-> EmptyMap]
    ELSE LET before == DefaultResponse(SubSeq(list, 1, Len(list) - 1))
             f == list[Len(list)]
         IN  IF ~(IsSetup(f) /\ Label(f) = <<>>) THEN before
             ELSE CASE f.Func = "SetStatusCode" -> [before EXCEPT !.status = f.Args[2].v]
                    [] f.Func = "SetJsonBody" -> [before EXCEPT !.body = f.Args[2].v]
                    [] f.Func = "SetHeader" ->
                         [before EXCEPT !.headers = MapSet(@, f.Args[2].v, f.Args[3].v)]
                    [] OTHER -> before

Finished(q) == q.pc = "done" /\ ~q.steps.nil

Pending(h) == <<h.StatusCode, h.Body, h.Headers, h.FixedDelay, h.RandomWait>>

\* The field a ResponseSetup instruction names holds the instruction's value
FieldWritten(h, f) ==
    CASE f.Func = "SetStatusCode" -> h.StatusCode = f.Args[2].v
      [] f.Func = "SetJsonBody" -> h.Body = f.Args[2].v
      [] f.Func = "SetHeader" -> f.Args[2].v \in DOMAIN h.Headers /\ h.Headers[f.Args[2].v] = f.Args[3].v
      [] OTHER -> TRUE

\* Request i executes its next instruction in this step
Executes(i) ==
    /\ reqs[i].pc = "exec"
    /\ reqs[i].idx <= Len(reqs[i].steps.list)
    /\ reqs'[i].idx = reqs[i].idx + 1

\* C2: a ResponseSetup instruction writes its field of the pending response
\* when its label equals the active case at the moment it executes, and
\* leaves the pending response untouched when it does not; no other
\* instruction (a later change of the active case in particular) touches the
\* pending response, so a skipped instruction is never applied afterwards.
C2_CaseGateAtExecution ==
    [][\A i \in DOMAIN reqs :
          Executes(i) =>
             LET f == reqs[i].steps.list[reqs[i].idx]
                 h == reqs[i].h
                 h2 == reqs'[i].h
             IN  /\ (IsSetup(f) /\ Label(f) = h.ActiveCase) =>
                        (FieldWritten(h2, f) /\ h2.ActiveCase = h.ActiveCase)
                 /\ (IsSetup(f) /\ Label(f) # h.ActiveCase) => h2 = h
                 /\ ~IsSetup(f) => Pending(h2) = Pending(h)]_vars

\* An instruction labelled B was skipped under the default case, the case
\* then became B, and the skipped status code is not in the pending response.
C2_Witness ==
    \E i \in DOMAIN reqs :
        /\ reqs[i].pc = "exec"
        /\ reqs[i].idx = 3
        /\ reqs[i].steps.list[1] = SetStatusCode(CaseB, 202)
        /\ IsSetCase(reqs[i].steps.list[2])
        /\ reqs[i].h.ActiveCase = CaseB
        /\ reqs[i].h.StatusCode = 200

\* The label of the last case-setting instruction of list whose condition
\* holds, the default case if there is none
RECURSIVE LastHeld(_, _)
LastHeld(list, r) ==
    IF Len(list) = 0 THEN <<>>
    ELSE LET f == list[Len(list)]
         IN  IF IsSetCase(f) /\ ConditionHolds(f, r) THEN Label(f)
             ELSE LastHeld(SubSeq(list, 1, Len(list) - 1), r)

\* C3: case selection is last-match-wins.  After any number of instructions
\* the active case is the label of the last executed case-setting instruction
\* whose condition held ("" before the first): an instruction whose condition
\* holds overwrites the case, one whose condition fails leaves it.
C3_LastMatchWins ==
    \A i \in DOMAIN reqs :
        reqs[i].pc = "exec" =>
            reqs[i].h.ActiveCase =
                LastHeld(SubSeq(reqs[i].steps.list, 1, reqs[i].idx - 1), reqs[i].r)

\* Two case-setting instructions with different labels both held, and the
\* active case is the later one's.
C3_Witness ==
    \E i \in DOMAIN reqs :
        /\ reqs[i].pc = "exec"
        /\ reqs[i].idx = 3
        /\ LET f == reqs[i].steps.list[1]
               g == reqs[i].steps.list[2]
           IN  /\ IsSetCase(f) /\ ConditionHolds(f, reqs[i].r)
               /\ IsSetCase(g) /\ ConditionHolds(g, reqs[i].r)
               /\ Label(f) # Label(g)
               /\ reqs[i].h.ActiveCase = Label(g)


-----------------------------------------------------------------------------
(* Properties of the controller *)

HasEntry(R, port, method, path) ==
    /\ port \in DOMAIN R
    /\ method \in DOMAIN R[port]
    /\ path \in DOMAIN R[port][method]

AllKeys == {<<p, m, u>> : p \in Ports, m \in Methods, u \in {PathA, PathB}}

\* Request i's handler does its route lookup in this step
LooksUp(i) == reqs[i].pc = "connected" /\ reqs'[i].pc # "connected"

\* The table holds an entry for exactly the request's (port, method, path)
Matched(i) == HasEntry(Routes, reqs[i].port, reqs[i].r.Method, reqs[i].r.Path)

MatchedSteps(i) == Routes[reqs[i].port][reqs[i].r.Method][reqs[i].r.Path]

\* C4: a request executes a script if and only if the route table holds an
\* entry for exactly its (port, method, path) at lookup time, and then it is
\* that entry's script; otherwise it is answered 404 without executing.
C4_ExactDispatch ==
    [][\A i \in DOMAIN reqs :
          LooksUp(i) =>
             /\ Matched(i) => (reqs'[i].pc = "exec" /\ reqs'[i].steps = MatchedSteps(i))
             /\ ~Matched(i) => (reqs'[i].pc = "done" /\ reqs'[i].result = "404")]_vars

\* C4 for entries whose instruction list is not nil, and for absent entries
C4_ExactDispatchNonNil ==
    [][\A i \in DOMAIN reqs :
          LooksUp(i) =>
             /\ (Matched(i) /\ ~MatchedSteps(i).nil) =>
                    (reqs'[i].pc = "exec" /\ reqs'[i].steps = MatchedSteps(i))
             /\ ~Matched(i) => (reqs'[i].pc = "done" /\ reqs'[i].result = "404")]_vars

\* C5: a registration replaces the entry of its key by its instruction list
\* as a whole and leaves every other key alone, so the table maps each key to
\* the list of the most recent registration; a request that looks a key up
\* executes the list registered for it.
C5_LatestRegistrationWins ==
    [][/\ \A k \in RegInputs :
             handleRegisterRoute(k[1], k[2], k[3], k[4]) =>
                /\ HasEntry(Routes', k[1], k[2], k[3])
                /\ Routes'[k[1]][k[2]][k[3]] = k[4]
                /\ \A o \in AllKeys \ {<<k[1], k[2], k[3]>>} :
                      /\ HasEntry(Routes', o[1], o[2], o[3]) <=> HasEntry(Routes, o[1], o[2], o[3])
                      /\ HasEntry(Routes, o[1], o[2], o[3]) =>
                            Routes'[o[1]][o[2]][o[3]] = Routes[o[1]][o[2]][o[3]]
       /\ \A i \in DOMAIN reqs :
             (LooksUp(i) /\ Matched(i)) =>
                (reqs'[i].pc = "exec" /\ reqs'[i].steps = MatchedSteps(i))]_vars

\* C6: a registration for a port without listener entry creates one new
\* listener instance for that port; for a port that has an entry the
\* listener set, the instances and the sockets are unchanged.  Entries of
\* other ports are never touched.
C6_ListenerOnFirstRegistration ==
    [][\A k \in RegInputs :
          handleRegisterRoute(k[1], k[2], k[3], k[4]) =>
             LET p == k[1]
             IN  /\ DOMAIN Servers' = DOMAIN Servers \cup {p}
                 /\ \A q \in DOMAIN Servers : Servers'[q] = Servers[q]
                 /\ bound' = bound
                 /\ p \in DOMAIN Servers => inst' = inst
                 /\ p \notin DOMAIN Servers =>
                       /\ Len(inst') = Len(inst) + 1
                       /\ SubSeq(inst', 1, Len(inst)) = inst
                       /\ Servers'[p] = Len(inst')
                       /\ inst'[Servers'[p]] = [port |-> p, state |-> "new", shut |-> "no"]]_vars

\* Two registrations on port 1 (two methods), one listener instance, listening
C6_Witness ==
    /\ 1 \in DOMAIN Servers
    /\ HasEntry(Routes, 1, "GET", PathA)
    /\ HasEntry(Routes, 1, "POST", PathB)
    /\ Len(inst) = 1
    /\ inst[1].state = "listening"
    /\ ctl.n = 2

\* C7: a request that arrives after resetPort(p) returned, with no
\* registerRoute for p ordered after the reset's removal of the routes, never
\* executes a script: it is refused or answered 404.
C7_NoScriptAfterResetPort ==
    \A i \in DOMAIN reqs :
        reqs[i].afterReset =>
            /\ reqs[i].pc # "exec"
            /\ reqs[i].result \in {"", "refused", "404"}

\* Port 2 was registered (its only route is GET /a), reset, and a request to
\* that route afterwards failed to connect
C7_Witness ==
    \E i \in DOMAIN reqs :
        /\ reqs[i].afterReset
        /\ reqs[i].port = 2
        /\ \E id \in DOMAIN inst : inst[id].port = 2 /\ inst[id].shut = "done"
        /\ reqs[i].result = "refused"

SamePortEntry(F, G, q) == (q \in DOMAIN F <=> q \in DOMAIN G) /\ (q \in DOMAIN F => F[q] = G[q])

\* C8: resetPort(p) removes the routes and the listener entry of p and leaves
\* those of every other port as they were; what the handler does afterwards
\* (shutting the removed listener down, answering) changes neither table and
\* no other port's socket.
C8_ResetPortFrame ==
    [][/\ \A p \in Ports :
             handleResetPort([port |-> p]) =>
                /\ p \notin DOMAIN Routes' /\ p \notin DOMAIN Servers'
                /\ \A q \in Ports \ {p} :
                      SamePortEntry(Routes, Routes', q) /\ SamePortEntry(Servers, Servers', q)
       /\ \A c \in DOMAIN ctl.active :
             (ctl.active[c].op = "resetPort" /\
              (ResetReturn(c) \/ \E id \in DOMAIN inst : ShutdownBegin(c, id) \/ ShutdownEnd(c, id))) =>
                /\ Routes' = Routes /\ Servers' = Servers
                /\ \A q \in Ports \ {ctl.active[c].port} : bound'[q] = bound[q]
                /\ \A id \in DOMAIN inst : inst[id].port # ctl.active[c].port => inst'[id] = inst[id]]_vars

\* resetPort(1) has removed port 1 and waits for its listener; port 2 still
\* has its route and its listener
C8_Witness ==
    /\ 1 \notin DOMAIN Routes /\ 1 \notin DOMAIN Servers
    /\ HasEntry(Routes, 2, "GET", PathA)
    /\ 2 \in DOMAIN Servers
    /\ inst[Servers[2]].state = "listening"
    /\ \E c \in DOMAIN ctl.active :
          ctl.active[c].op = "resetPort" /\ ctl.active[c].port = 1 /\ ctl.active[c].insts # {}

\* C9: resetAll empties the route table and the listener set and takes every
\* listener instance that was in the set; it answers 200 only when the
\* Shutdown of each of them has returned (finished or timed out).  The
\* shutdowns do not wait for one another: each can begin as soon as the
\* tables are cleared.
C9_ResetAllAwaitsShutdowns ==
    [][/\ handleResetAll =>
             /\ Routes' = EmptyMap /\ Servers' = EmptyMap
             /\ ctl'.active[Len(ctl'.active)].insts = {Servers[p] : p \in DOMAIN Servers}
       /\ \A c \in DOMAIN ctl.active :
             (ctl.active[c].op = "resetAll" /\ ResetReturn(c)) =>
                /\ ctl'.last = Response("resetAll", 200)
                /\ \A id \in ctl.active[c].insts :
                      /\ inst[id].shut \in {"done", "timeout"}
                      /\ inst[id].state # "listening"
                      /\ \A p \in DOMAIN Servers : Servers[p] # id
                      /\ \A p \in Ports : bound[p] # id
       /\ \A c \in DOMAIN ctl.active :
             ctl.active[c].op = "resetAll" =>
                \A id \in ctl.active[c].insts :
                   inst[id].shut = "no" => ENABLED ShutdownBegin(c, id)]_vars

\* resetAll has answered 200 after shutting two listeners down, one Shutdown
\* finished and the other timed out on a request in flight
C9_Witness ==
    /\ ctl.last = Response("resetAll", 200)
    /\ ctl.active = <<>>
    /\ Routes = EmptyMap /\ Servers = EmptyMap
    /\ Len(inst) = 2
    /\ \E a, b \in DOMAIN inst : inst[a].shut = "done" /\ inst[b].shut = "timeout"

\* C10: a reset that finds nothing to remove changes nothing and starts no
\* shutdown; every reset leaves nothing of its target behind, so the same
\* reset applied again is such a reset; and every reset answers 200.
C10_ResetIdempotent ==
    [][/\ \A p \in Ports :
             handleResetPort([port |-> p]) =>
                /\ p \notin DOMAIN Routes' /\ p \notin DOMAIN Servers'
                /\ (p \notin DOMAIN Routes /\ p \notin DOMAIN Servers) =>
                      /\ Routes' = Routes /\ Servers' = Servers
                      /\ inst' = inst /\ bound' = bound
                      /\ ctl'.active[Len(ctl'.active)].insts = {}
       /\ handleResetAll =>
             /\ Routes' = EmptyMap /\ Servers' = EmptyMap
             /\ (Routes = EmptyMap /\ Servers = EmptyMap) =>
                   /\ inst' = inst /\ bound' = bound
                   /\ ctl'.active[Len(ctl'.active)].insts = {}
       /\ \A c \in DOMAIN ctl.active :
             ResetReturn(c) =>
                /\ ctl'.last = Response(ctl.active[c].op, 200)
                /\ Routes' = Routes /\ Servers' = Servers]_vars

\* A listener was registered and reset, and a further reset, which found
\* nothing, has answered 200 as well
C10_Witness ==
    /\ ctl.n = 3
    /\ ctl.active = <<>>
    /\ ctl.last.status = 200 /\ ctl.last.op \in {"resetPort", "resetAll"}
    /\ Len(inst) = 1 /\ inst[1].shut = "done"
    /\ Routes = EmptyMap /\ Servers = EmptyMap

\* C11: a registration that repeats the one accepted just before it, with no
\* reset in between, changes neither the route table nor the listener set,
\* the instances or the sockets; the first of the two left the entry and a
\* listener entry in place, so what a matching request is answered from is the
\* same after one registration and after two.
C11_RegisterIdempotent ==
    [][\A k \in RegInputs :
          handleRegisterRoute(k[1], k[2], k[3], k[4]) =>
             /\ HasEntry(Routes', k[1], k[2], k[3])
             /\ Routes'[k[1]][k[2]][k[3]] = k[4]
             /\ k[1] \in DOMAIN Servers'
             /\ ctl.lastReg.k = k =>
                   /\ Routes' = Routes /\ Servers' = Servers
                   /\ inst' = inst /\ bound' = bound]_vars

\* The same registration was accepted twice in a row, and two requests to the
\* route have been answered alike
C11_Witness ==
    /\ ctl.lastReg.times = 2
    /\ ctl.lastReg.k = <<2, "GET", PathA, Script201>>
    /\ Len(reqs) = 2
    /\ \A i \in DOMAIN reqs : reqs[i].result = "scripted" /\ reqs[i].resp.status = 201
    /\ reqs[1].resp = reqs[2].resp

\* C12: when the listener created by a registration fails to start (its
\* port cannot be bound), that registration was answered 500.
C12_FailedStartAnswers500 ==
    \A id \in DOMAIN inst :
        inst[id].state = "failed" => ctl.answered[id] = 500

\* C13: when a reset answers, no listener it shut down still serves a
\* request: a listener whose grace period expired has been force-closed.
C13_ForceCloseAfterGrace ==
    [][\A c \in DOMAIN ctl.active :
          ResetReturn(c) => \A id \in ctl.active[c].insts : InFlight(id) = {}]_vars

RECURSIVE Outcomes(_, _, _, _)
Outcomes(h, r, list, idx) ==
    IF h.panicked THEN {NoResponse}
    ELSE IF idx > Len(list) THEN Finalize(h)
    ELSE UNION {Outcomes(h2, r, list, idx + 1) : h2 \in runFunc(h, r, list[idx])}

\* C15: from its lookup on, a request keeps the script it captured, whatever
\* resets and registrations do to the table: each step executes the next
\* instruction of that script, and the request ends with the response of that
\* script written.
C15_RunsCapturedScript ==
    [][\A i \in DOMAIN reqs :
          reqs[i].pc = "exec" =>
             LET q == reqs[i]
                 q2 == reqs'[i]
             IN  /\ q2.steps = q.steps
                 /\ (q2.pc = "exec" /\ q2 # q) =>
                       /\ q.idx <= Len(q.steps.list)
                       /\ q2.idx = q.idx + 1
                       /\ q2.h \in runFunc(q.h, q.r, q.steps.list[q.idx])
                 /\ q2.pc = "done" =>
                       /\ q2.result = "scripted"
                       /\ q2.resp.written
                       /\ q2.resp \in Outcomes(q.h, q.r, q.steps.list, q.idx)]_vars

\* The only request captured the 201 script; the reset of its port removed
\* the route and timed out waiting for it; the request was answered 201
C15_Witness ==
    /\ Len(reqs) = 1 /\ Len(inst) = 1
    /\ reqs[1].result = "scripted" /\ reqs[1].resp.status = 201
    /\ reqs[1].steps = Script201
    /\ inst[1].shut = "timeout"
    /\ Routes = EmptyMap

\* Request i is about to execute a GenerateRandomInt instruction
AtGenerator(i) ==
    /\ reqs[i].pc = "exec"
    /\ reqs[i].idx <= Len(reqs[i].steps.list)
    /\ reqs[i].steps.list[reqs[i].idx].Func = "GenerateRandomInt"

\* Request i executes the instruction and the value v is drawn
Draws(i, v) == ExecStep(i) /\ reqs'[i].h.Variables[VarX] = NumVal(v)

\* C16: a request starts in an environment with no variable, the default
\* case and the default response; a step of one request changes nothing of
\* another request; an instruction takes a request's environment to one that
\* depends on that request's own environment only; and whatever the other
\* requests have drawn, every value of the generator's range can be drawn.
C16_FreshIsolatedEnvironment ==
    [][\A i \in DOMAIN reqs :
          /\ (LooksUp(i) /\ reqs'[i].pc = "exec") =>
                /\ reqs'[i].h.Variables = EmptyMap
                /\ reqs'[i].h.ActiveCase = <<>>
                /\ reqs'[i].h.StatusCode = 200
                /\ reqs'[i].h.Body = <<>>
                /\ reqs'[i].h.Headers = EmptyMap
          /\ reqs'[i] # reqs[i] => \A j \in DOMAIN reqs \ {i} : reqs'[j] = reqs[j]
          /\ (reqs[i].pc = "exec" /\ reqs'[i].pc = "exec" /\ reqs'[i] # reqs[i]) =>
                reqs'[i].h \in runFunc(reqs[i].h, reqs[i].r, reqs[i].steps.list[reqs[i].idx])
          /\ AtGenerator(i) => \A v \in 1..2 : ENABLED Draws(i, v)]_vars

\* Both requests ran the generating script to the end: the first drew 1 under
\* case B, the second drew 2 under the default case
C16_Witness ==
    /\ reqs[1].result = "scripted" /\ reqs[1].resp.body = <<"b", "1">>
    /\ reqs[2].result = "scripted" /\ reqs[2].resp.body = <<"d", "2">>

-----------------------------------------------------------------------------
(* Properties of rendering and of malformed instructions *)

\* Request i's response is written in this step
Writes(i) == reqs[i].pc = "exec" /\ reqs'[i].pc = "done" /\ reqs'[i].resp.written

SetsTemplate(list) == \E j \in DOMAIN list : list[j] = SetJsonBody(<<>>, TemplateV)

\* C17: the body is the template with the value the variable has when the
\* response is written, wherever in the script the variable was bound:
\* before or after the SetJsonBody instruction.
C17_BodyRenderedAtFinalize ==
    [][\A i \in DOMAIN reqs :
          (/\ Writes(i)
           /\ SetsTemplate(reqs[i].steps.list)
           /\ VarX \in DOMAIN reqs[i].h.Variables) =>
              reqs'[i].resp.body =
                 TemplatePrefix \o SprintV(reqs[i].h.Variables[VarX]) \o TemplateSuffix]_vars

\* The variable is bound by the instruction after SetJsonBody and appears in
\* the body
C17_Witness ==
    \E i \in DOMAIN reqs :
        /\ reqs[i].pc = "done" /\ reqs[i].resp.written
        /\ reqs[i].steps.list =
              << SetJsonBody(<<>>, TemplateV),
                 IfRequestPath(ConditionEqual, PathA, VarX, StrVal(<<"h", "i">>)) >>
        /\ reqs[i].resp.body = TemplatePrefix \o <<"h", "i">> \o TemplateSuffix

\* C18: a reference to a bound variable renders as its value and a reference
\* to a variable that is not bound renders as the empty string.
C18_UnboundRendersEmpty ==
    [][\A i \in DOMAIN reqs :
          (Writes(i) /\ SetsTemplate(reqs[i].steps.list)) =>
              reqs'[i].resp.body =
                 TemplatePrefix
                 \o (IF VarX \in DOMAIN reqs[i].h.Variables
                     THEN SprintV(reqs[i].h.Variables[VarX]) ELSE <<>>)
                 \o TemplateSuffix]_vars

\* C19: executing an instruction that lacks arguments or has an argument of
\* the wrong type only moves on to the next instruction, and every request
\* ends with a response written.
C19_MalformedIsNoOp ==
    [][\A i \in DOMAIN reqs :
          /\ (/\ reqs[i].pc = "exec"
              /\ reqs[i].idx <= Len(reqs[i].steps.list)
              /\ reqs'[i] # reqs[i]
              /\ reqs[i].steps.list[reqs[i].idx] \in MalformedInstructions) =>
                 reqs'[i] = [reqs[i] EXCEPT !.idx = @ + 1]
          /\ (reqs[i].pc = "exec" /\ reqs'[i].pc = "done") => reqs'[i].resp.written]_vars

\* The (body, path) pairs of the inputs in which the path resolves:
\* k in {"k":"hi"}, and k and k[0] in {"k":["hi"]}
ResolvedPairs == {<<BodyText, PathK>>, <<BodyList, PathK>>, <<BodyList, PathK0>>}

\* C20: executing a JSON-body condition whose path does not resolve in the
\* request's body leaves the environment as it is (no variable bound, active
\* case unchanged), whatever the right operand, and execution goes on.
C20_UnresolvedPathIsFalse ==
    [][\A i \in DOMAIN reqs :
          (/\ reqs[i].pc = "exec"
           /\ reqs[i].idx <= Len(reqs[i].steps.list)
           /\ reqs'[i] # reqs[i]
           /\ <<reqs[i].r.Body, reqs[i].steps.list[reqs[i].idx].Args[1].v>> \notin ResolvedPairs) =>
              reqs'[i] = [reqs[i] EXCEPT !.idx = @ + 1]]_vars

-----------------------------------------------------------------------------
(* Properties of Condition instructions *)

\* The Condition instructions by name: the variants that bind a variable and
\* the variants that set the case
BindingVariants == {"IfRequestHeader", "IfRequestJsonBody", "IfRequestPath", "IfRequestQuery"}
SetCaseVariants ==
    {"IfRequestHeaderSetCase", "IfRequestJsonBodySetCase", "IfRequestPathSetCase",
     "IfRequestQuerySetCase"}

IsCondition(f) ==
    f.Group = GroupPrepareData /\ f.Func \in BindingVariants \cup SetCaseVariants

\* The path variants take no field argument: their arguments start one earlier
OnPath(f) == f.Func \in {"IfRequestPath", "IfRequestPathSetCase"}
ArgAt(f, k) == f.Args[IF OnPath(f) THEN k - 1 ELSE k]

\* The left operand a Condition instruction reads from the request
ActualOf(f, r) ==
    CASE f.Func \in {"IfRequestHeader", "IfRequestHeaderSetCase"} ->
           StrVal(Get(r.Header, ArgAt(f, 1).v))
      [] f.Func \in {"IfRequestJsonBody", "IfRequestJsonBodySetCase"} ->
           getJSONPath(r, ArgAt(f, 1).v)
      [] f.Func \in {"IfRequestQuery", "IfRequestQuerySetCase"} ->
           StrVal(Get(r.Query, ArgAt(f, 1).v))
      [] OTHER -> StrVal(r.Path)

\* The verdict of the interpreter on a Condition instruction
Verdict(h, r, f) == checkCondition(ActualOf(f, r), ArgAt(f, 2).v, resolveArg(h, ArgAt(f, 3)))

\* C21: a Condition instruction never changes the pending response.  A
\* binding variant leaves the active case unchanged and binds its target
\* variable to its value exactly when its condition holds; a SetCase variant
\* leaves the variable map unchanged and overwrites the active case with its
\* label exactly when its condition holds.  When the condition does not
\* hold, neither the variable map nor the active case changes.
C21_ConditionHasOneEffect ==
    [][\A i \in DOMAIN reqs :
          (Executes(i) /\ IsCondition(reqs[i].steps.list[reqs[i].idx])) =>
             LET f == reqs[i].steps.list[reqs[i].idx]
                 h == reqs[i].h
                 h2 == reqs'[i].h
                 holds == Verdict(h, reqs[i].r, f)
             IN  /\ Pending(h2) = Pending(h)
                 /\ f.Func \in BindingVariants =>
                       /\ h2.ActiveCase = h.ActiveCase
                       /\ h2.Variables =
                             IF holds
                             THEN MapSet(h.Variables, ArgAt(f, 4).v, resolveArg(h, ArgAt(f, 5)))
                             ELSE h.Variables
                 /\ f.Func \in SetCaseVariants =>
                       /\ h2.Variables = h.Variables
                       /\ h2.ActiveCase = IF holds THEN ArgAt(f, 4).v ELSE h.ActiveCase]_vars

\* A binding variant whose condition held bound X and left the default case,
\* then a SetCase variant whose condition held set case A and left X alone.
C21_Witness ==
    \E i \in DOMAIN reqs :
        /\ reqs[i].pc = "exec"
        /\ reqs[i].idx = 3
        /\ reqs[i].steps.list[1].Func = "IfRequestJsonBody"
        /\ reqs[i].steps.list[2].Func = "IfRequestJsonBodySetCase"
        /\ reqs[i].steps.list[2].Args[1].v = PathQ
        /\ reqs[i].r.Body = BodyText
        /\ reqs[i].h.Variables = MapSet(EmptyMap, VarX, StrVal(<<"h", "i">>))
        /\ reqs[i].h.ActiveCase = CaseA

-----------------------------------------------------------------------------
(* Properties of the test library: JSON paths *)

\* Path resolution as the specification words it: a key applies to an object
\* that contains it, a bracket index applies to an array and lies within
\* 0..length-1; anything else is not-found.
RECURSIVE Resolve(_, _)
Resolve(value, segs) ==
    IF Len(segs) = 0 THEN PathValue(value)
    ELSE LET seg == segs[1]
             keyed == IF seg.key = <<>> THEN PathValue(value)
                      ELSE IF value.t = "object" /\ seg.key \in DOMAIN value.v
                           THEN PathValue(value.v[seg.key])
                           ELSE PathError
         IN  IF ~keyed.ok THEN PathError
             ELSE IF seg.idx = NoIndex THEN Resolve(keyed.v, Tail(segs))
             ELSE LET n == CHOOSE n \in seg.idx : TRUE
                  IN  IF keyed.v.t = "array" /\ n \in 0..(Len(keyed.v.v) - 1)
                      THEN Resolve(keyed.v.v[n + 1], Tail(segs))
                      ELSE PathError

Returned(fn) == eval.fn = fn /\ eval.done

\* C22: getValueByPath returns the value reached by following the segments
\* of the path (key, then optional bracket index) and reports not-found when
\* a key is applied to a value that is not an object containing it, or a
\* bracket index to a value that is not an array or with the index outside
\* 0..length-1.
C22_PathResolution ==
    Returned("getValueByPath") =>
        \A segs \in PathInputs :
            eval.args[2] = PathText(segs) => eval.ret = Resolve(eval.args[1], segs)

\* The five examples: a, b.c, d[0], d[1] and x.y over the document
C22_Examples ==
    (Returned("getValueByPath") /\ eval.args[1] = Document) =>
        /\ eval.args[2] = <<"a">> => eval.ret = PathValue(NumVal(1))
        /\ eval.args[2] = <<"b", ".", "c">> => eval.ret = PathValue(NumVal(2))
        /\ eval.args[2] = <<"d", "[", "0", "]">> => eval.ret = PathValue(NumVal(3))
        /\ eval.args[2] = <<"d", "[", "1", "]">> => eval.ret = PathValue(NumVal(4))
        /\ eval.args[2] = <<"x", ".", "y">> => eval.ret = PathError

-----------------------------------------------------------------------------
(* Properties of the test library: conditions *)

IsNull(x) == x.t = "nil"
IsNumeric(x) == x.t \in {"int", "number"}

\* Equal as the specification words it
SpecEqual(a, b) ==
    \/ IsNull(a) /\ IsNull(b)
    \/ IsNumeric(a) /\ IsNumeric(b) /\ a.v = b.v
    \/ ~IsNull(a) /\ ~IsNull(b) /\ ~(IsNumeric(a) /\ IsNumeric(b)) /\ a = b

\* C23: Equal holds exactly when both operands are null, or both are native
\* numbers with the same numeric value, or, neither being null and not both
\* numeric, they are structurally equal; the number 5 and the string "5" are
\* not Equal; NotEqual is the negation of Equal for all operands.
C23_EqualAndNotEqual ==
    Returned("evaluateCondition") =>
        /\ eval.args[2] = ConditionEqual => eval.ret = SpecEqual(eval.args[1], eval.args[3])
        /\ eval.args[2] = ConditionNotEqual => eval.ret = ~SpecEqual(eval.args[1], eval.args[3])
        /\ (/\ eval.args[2] = ConditionEqual
            /\ {eval.args[1], eval.args[3]} \in
                  {{NumVal(5), StrVal(<<"5">>)}, {IntVal(5), StrVal(<<"5">>)}}) => eval.ret = FALSE

\* Equal was evaluated on the int 5 and the float64 5 and holds
C23_Witness ==
    /\ Returned("evaluateCondition")
    /\ eval.args = <<IntVal(5), ConditionEqual, NumVal(5)>>
    /\ eval.ret = TRUE

\* The numeric comparison a keyword names
Compares(k, x, y) ==
    CASE k = ConditionGreaterThan -> x > y
      [] k = ConditionLessThan -> x < y
      [] k = ConditionGreaterThanOrEqual -> x >= y
      [] k = ConditionLessThanOrEqual -> x <= y

\* C24: an ordering condition evaluates to the numeric comparison when both
\* operands are native numbers and to false for every other pair of operands
\* (null, string, boolean, slice); an unknown keyword evaluates to false.
\* Every call returns a verdict.
C24_OrderingNumericOnly ==
    /\ Returned("evaluateCondition") =>
          /\ eval.ret \in BOOLEAN
          /\ eval.args[2] \in OrderingKeywords =>
                eval.ret = IF IsNumeric(eval.args[1]) /\ IsNumeric(eval.args[3])
                           THEN Compares(eval.args[2], eval.args[1].v, eval.args[3].v)
                           ELSE FALSE
          /\ eval.args[2] \notin Keywords => eval.ret = FALSE
    /\ (eval.fn = "evaluateCondition" /\ ~eval.done) => ENABLED ReturnEvaluateCondition

\* GreaterThan was evaluated on the string "5" and the number 3 and is false
C24_Witness ==
    /\ Returned("evaluateCondition")
    /\ eval.args = <<StrVal(<<"5">>), ConditionGreaterThan, NumVal(3)>>
    /\ eval.ret = FALSE

\* C25: for every keyword and every pair of operands, the interpreter's
\* verdict on a condition is the Condition Library's verdict.
C25_InterpreterUsesLibrary ==
    Returned("checkCondition") =>
        eval.ret = evaluateCondition(eval.args[1], eval.args[2], eval.args[3])

-----------------------------------------------------------------------------
(* Properties of the client *)

ClientReturned == eval.fn \in {"RegisterRoute", "ResetPort", "ResetAll"} /\ eval.done

Failed(reply) == reply.failed \/ reply.status # 200

\* C26: a returned RegisterRoute, ResetPort or ResetAll has sent exactly one
\* POST, and its error is non-nil exactly when the transport failed or the
\* response status is not 200.
C26_OnePostErrorIffFailure ==
    ClientReturned =>
        /\ eval.posts = 1
        /\ eval.ret # NilError <=> Failed(eval.reply)

Encodes(call) == call.fn # "RegisterRoute" \/ call.args[4] # ScriptChan

\* C26 as amended: a call whose request encodes as JSON has sent exactly
\* one POST when it returns, and its error is non-nil exactly when the
\* transport failed or the response status is not 200; a RegisterRoute whose
\* instructions do not encode returns a non-nil error and has sent no POST.
\* No call ever sends a second POST.
C26_OnePostWhenEncodable ==
    /\ eval.fn \in {"RegisterRoute", "ResetPort", "ResetAll"} => eval.posts <= 1
    /\ ClientReturned =>
          IF Encodes(eval)
          THEN /\ eval.posts = 1
               /\ eval.ret # NilError <=> Failed(eval.reply)
          ELSE /\ eval.posts = 0
               /\ eval.ret # NilError

\* RegisterRoute was answered 204 and returned an error after one POST
C26_Witness ==
    /\ ClientReturned
    /\ eval.fn = "RegisterRoute"
    /\ eval.posts = 1
    /\ eval.reply = HttpResponse(204)
    /\ eval.ret = StatusError(204)

-----------------------------------------------------------------------------
(* Properties of the control server's mux *)

\* The status the specification gives a control-plane request that is to be
\* rejected, 0 for every other request
RejectionStatus(r) ==
    IF r.Path \notin {"/registerRoute", "/resetPort", "/resetAll"} THEN 404
    ELSE IF r.Path = "/registerRoute" /\ r.Method # "POST" THEN 405
    ELSE IF r.Path \in {"/registerRoute", "/resetPort"} /\ ~r.Body.ok THEN 400
    ELSE 0

\* C27: serving a control-plane request with an unknown path, a
\* registerRoute that is not a POST, or a registerRoute or resetPort whose
\* body does not decode answers 404, 405 or 400 and leaves the route table,
\* the listener table and the listeners as they are.
C27_RejectedChangesNothing ==
    [][\A r \in ControlRequests :
          (ServeControl(r) /\ RejectionStatus(r) # 0) =>
              /\ ctl'.last.status = RejectionStatus(r)
              /\ Routes' = Routes
              /\ Servers' = Servers
              /\ inst' = inst
              /\ bound' = bound]_vars

\* A route is registered, its listener is up, and a registerRoute that was
\* not a POST has just been answered 405
C27_Witness ==
    /\ ctl.last = Response("registerRoute", 405)
    /\ LookupSteps(Routes, 1, "GET", PathA) = Script201
    /\ 1 \in DOMAIN Servers
    /\ inst[Servers[1]].state = "listening"

-----------------------------------------------------------------------------
(* Properties of the generators *)

\* Request i executes, or fails to execute, its next instruction in this step
Runs(i) ==
    /\ reqs[i].pc = "exec"
    /\ reqs[i].idx <= Len(reqs[i].steps.list)
    /\ reqs'[i] # reqs[i]

\* After the step the variable is bound to an integer within lo..hi
BindsWithin(i, var, lo, hi) ==
    /\ reqs'[i].pc = "exec"
    /\ var \in DOMAIN reqs'[i].h.Variables
    /\ reqs'[i].h.Variables[var].v >= lo
    /\ reqs'[i].h.Variables[var].v <= hi

\* C28: GenerateRandomInt(min, max) binds its target to an integer v with
\* min <= v <= max for every pair min <= max, and
\* GenerateRandomIntFixLength(n) binds its target to an integer with exactly
\* n decimal digits, 10^(n-1) <= v <= 10^n - 1, for every n >= 1.
C28_RandomIntWithinRange ==
    [][\A i \in DOMAIN reqs :
          Runs(i) =>
             LET f == reqs[i].steps.list[reqs[i].idx]
             IN  /\ f.Func = "GenerateRandomInt" =>
                       BindsWithin(i, f.Args[3].v, f.Args[1].v, f.Args[2].v)
                 /\ f.Func = "GenerateRandomIntFixLength" =>
                       BindsWithin(i, f.Args[2].v, 10 ^ (f.Args[1].v - 1), 10 ^ f.Args[1].v - 1)]_vars

\* C28 where the arithmetic stays within int: when max - min + 1 and
\* 10^n - 1 do not exceed the largest int, the bound value is within range.
C28_WithinRangeIfNoOverflow ==
    [][\A i \in DOMAIN reqs :
          Runs(i) =>
             LET f == reqs[i].steps.list[reqs[i].idx]
             IN  /\ (f.Func = "GenerateRandomInt" /\ f.Args[2].v - f.Args[1].v + 1 <= MaxInt) =>
                       BindsWithin(i, f.Args[3].v, f.Args[1].v, f.Args[2].v)
                 /\ (f.Func = "GenerateRandomIntFixLength" /\ 10 ^ f.Args[1].v - 1 <= MaxInt) =>
                       BindsWithin(i, f.Args[2].v, 10 ^ (f.Args[1].v - 1), 10 ^ f.Args[1].v - 1)]_vars

-----------------------------------------------------------------------------
(* C29, C30: stage runs and dry runs of the Tester *)

\* g's call of RunStageByName returns in this step
ReturnsFromRun(g) ==
    /\ \/ \E name \in RunNames : RunStageByName(g, name)
       \/ ReturnRunStageByName(g)
    /\ calls'[g].pc = "done"

\* No stage to run under this name: none registered, or the first one
\* registered without a function
UnknownStage(name) == FindStage(name).nil

\* What the claim says of the call that returns in this step
RunResult(g) ==
    LET c == calls'[g]
        panicked == calls[g].panic # NoPanic /\ calls[g].panic.type # "TestError"
    IN  /\ UnknownStage(c.name) => c.err # NoError
        /\ c.failed # "" => c.err # NoError /\ c.err.arg = c.failed
        /\ panicked => c.err # NoError /\ c.err.arg = calls[g].panic.Message
        /\ (~UnknownStage(c.name) /\ c.failed = "" /\ ~panicked) => c.err = NoError
        /\ c.ran => ~isRecording' /\ currentStage' = ""

\* C29: RunStageByName returns an error for a name it has no stage to run
\* under, an error carrying the message when the stage function called
\* Fail or panicked, and nil otherwise; when a call that ran a stage
\* returns, recording is off and no stage is current.
C29_RunStageByNameResult ==
    [][\A g \in Callers : ReturnsFromRun(g) => RunResult(g)]_vars

\* C29 for a call that no other call overlaps
C29_ResultWhenAlone ==
    [][\A g \in Callers :
          (ReturnsFromRun(g) /\ ~calls'[g].overlapped) => RunResult(g)]_vars

InDryRun(g) == calls[g].fn \in {"DryRunStage", "DryRunAll"}

\* What the claim says of the step a dry run takes
DryRunStep(g) ==
    LET name == calls[g].name
    IN  /\ Sleep(g) =>
               stageActions'[name] = Append(stageActions[name], Action("Sleep", "Sleep"))
        /\ SleepDelay(g) => calls'[g].delays = calls[g].delays
        /\ Fail(g) => calls'[g].panic = NoPanic
        /\ ReturnDryRunStage(g) => ~isDryRun' /\ ~isRecording'

\* C30: in a dry run a helper operation is recorded as an action of the
\* stage being run, its side effect is skipped and Fail does not panic; when
\* DryRunStage returns, dry-run mode and recording are off, also after a
\* panic of the stage function.
C30_DryRunRecordsAndSkips ==
    [][\A g \in Callers : InDryRun(g) => DryRunStep(g)]_vars

\* C30 for a dry run that no other call overlaps
C30_DryRunWhenAlone ==
    [][\A g \in Callers : (InDryRun(g) /\ ~calls'[g].overlapped) => DryRunStep(g)]_vars

-----------------------------------------------------------------------------
(* C31: a registered port is served *)

\* The port has routes and a listener entry
Registry(port) == port \in DOMAIN Routes /\ port \in DOMAIN Servers

\* The entry's listener accepts connections on the port, or its goroutine
\* has not reached the bind yet
Serving(port) == inst[Servers[port]].state \in {"new", "listening"}

\* C31: while a port has routes and a listener entry (registerRoute has
\* answered 200 and no reset of the port has started since), the entry's
\* listener is the one accepting on the port, at the latest once its
\* goroutine has run: "routes and an entry, but nothing listening" is never
\* reached, also when the registration ran between a reset's removal of the
\* old entry and the old listener's release of the port.
C31_RegisteredPortIsServed ==
    \A port \in Ports : Registry(port) => Serving(port)

-----------------------------------------------------------------------------
(* C32: resets return *)

\* C32: every resetPort and resetAll that has started returns, whatever the
\* requests in flight do: a Shutdown ends when its listener is idle or when
\* the grace period expires; and from the moment the reset calls Shutdown
\* the listener accepts no new connection, also while requests it accepted
\* earlier are still running.
C32_ResetsReturn ==
    /\ (ctl.active # <<>>) ~> (ctl.active = <<>>)
    /\ [](\A id \in DOMAIN inst :
             inst[id].shut # "no" =>
                /\ inst[id].state # "listening"
                /\ \A port \in Ports : Accepting(port) # id)

\* A resetPort has answered although a request its listener accepted is
\* still running: the Shutdown ended with the grace period
C32_Witness ==
    /\ ctl.active = <<>>
    /\ ctl.last = Response("resetPort", 200)
    /\ \E id \in DOMAIN inst :
          /\ inst[id].shut = "timeout"
          /\ \E i \in DOMAIN reqs : reqs[i].inst = id /\ reqs[i].pc = "exec"

-----------------------------------------------------------------------------
(* C33: the random wait *)

\* The wait of the response beyond the fixed delay
RandomPart(h, resp) == resp.slept - (IF h.FixedDelay > 0 THEN h.FixedDelay ELSE 0)

\* C33: when a SetRandomWait(min, max) with max > 0 is in effect at
\* finalization, 0 <= min <= max, the response is written after a random
\* wait d with min <= d <= max.
C33_RandomWaitWithinRange ==
    [][\A i \in DOMAIN reqs :
          (FinalizeReq(i) /\ reqs[i].h.RandomWait[2] > 0) =>
             LET d == RandomPart(reqs[i].h, reqs'[i].resp)
             IN  /\ reqs'[i].resp.written
                 /\ reqs[i].h.RandomWait[1] <= d
                 /\ d <= reqs[i].h.RandomWait[2]]_vars

\* C33 for min < max
C33_WithinRangeIfMinBelowMax ==
    [][\A i \in DOMAIN reqs :
          (/\ FinalizeReq(i)
           /\ reqs[i].h.RandomWait[2] > 0
           /\ reqs[i].h.RandomWait[1] < reqs[i].h.RandomWait[2]) =>
             LET d == RandomPart(reqs[i].h, reqs'[i].resp)
             IN  /\ reqs'[i].resp.written
                 /\ reqs[i].h.RandomWait[1] <= d
                 /\ d < reqs[i].h.RandomWait[2]]_vars

-----------------------------------------------------------------------------
(* C34: routes and listener entries go together *)

\* C34: whenever the lock is free, the ports with a listener entry are the
\* ports with a route table: a registration leaves its port with both, a
\* resetPort leaves its port with neither, and a resetAll leaves no port with
\* either.
C34_EntriesGoTogether ==
    /\ [](LockFree => DOMAIN Servers = DOMAIN Routes)
    /\ [][/\ \A k \in RegInputs :
                handleRegisterRoute(k[1], k[2], k[3], k[4]) =>
                   k[1] \in DOMAIN Routes' /\ k[1] \in DOMAIN Servers'
          /\ \A p \in Ports :
                handleResetPort([port |-> p]) =>
                   p \notin DOMAIN Routes' /\ p \notin DOMAIN Servers'
          /\ handleResetAll => Routes' = EmptyMap /\ Servers' = EmptyMap]_vars

\* Both ports were registered and port 2 was reset since: port 1 has routes
\* and an entry, port 2 has neither, and no handler is running
C34_Witness ==
    /\ ctl.active = <<>>
    /\ ctl.last = Response("resetPort", 200)
    /\ 1 \in DOMAIN Routes /\ 1 \in DOMAIN Servers
    /\ 2 \notin DOMAIN Routes /\ 2 \notin DOMAIN Servers
    /\ \E id \in DOMAIN inst : inst[id].port = 2

-----------------------------------------------------------------------------
(* C35: the pending response across changes of the active case *)

\* The response a script describes when every ResponseSetup instruction
\* counts that was labelled with the case active when it was reached, and a
\* later instruction replaces the field of an earlier one only
RECURSIVE CombinedResponse(_, _)
CombinedResponse(list, r) ==
    IF Len(list) = 0
    THEN [status |-> 200, body |-> <<>>, headers |-> EmptyMap]
    ELSE LET earlier == SubSeq(list, 1, Len(list) - 1)
             before == CombinedResponse(earlier, r)
             f == list[Len(list)]
         IN  IF ~(IsSetup(f) /\ Label(f) = LastHeld(earlier, r)) THEN before
             ELSE CASE f.Func = "SetStatusCode" -> [before EXCEPT !.status = f.Args[2].v]
                    [] f.Func = "SetJsonBody" -> [before EXCEPT !.body = f.Args[2].v]
                    [] f.Func = "SetHeader" ->
                         [before EXCEPT !.headers = MapSet(@, f.Args[2].v, f.Args[3].v)]
                    [] OTHER -> before

\* C35: the pending response holds, field by field, what the last
\* instruction that matched the case active at its time wrote there; a later
\* change of the active case removes nothing, so the response written at the
\* end may combine fields set under different cases.
C35_FieldsKeptAcrossCases ==
    \A i \in DOMAIN reqs :
        LET q == reqs[i]
        IN  /\ q.pc = "exec" =>
                 LET kept == CombinedResponse(SubSeq(q.steps.list, 1, q.idx - 1), q.r)
                 IN  /\ q.h.StatusCode = kept.status
                     /\ q.h.Body = kept.body
                     /\ q.h.Headers = kept.headers
            /\ (q.pc = "done" /\ q.result = "scripted") =>
                 LET kept == CombinedResponse(q.steps.list, q.r)
                 IN  /\ q.resp.status = kept.status
                     /\ q.resp.body = kept.body
                     /\ q.resp.headers = kept.headers

\* The response was written with the status set under case B and the body
\* set under the default case, after the case had changed from B to A
C35_Witness ==
    \E i \in DOMAIN reqs :
        /\ reqs[i].pc = "done" /\ reqs[i].result = "scripted"
        /\ reqs[i].steps.list = << IfRequestHeaderSetCase(HeaderT, ConditionEqual, <<"B">>, CaseB),
                                  SetStatusCode(CaseB, 202),
                                  IfRequestPathSetCase(ConditionEqual, PathA, CaseA) >>
        /\ reqs[i].resp.status = 202

-----------------------------------------------------------------------------
(* C36: header values are rendered when SetHeader executes *)

\* C36: when SetHeader executes, the header gets the template with the
\* value the variable has at that moment; no other instruction changes the
\* header, whatever it does to the variable, and the response is written
\* with the header as it is then.
C36_HeaderRenderedAtExecution ==
    [][\A i \in DOMAIN reqs :
          /\ Executes(i) =>
                LET f == reqs[i].steps.list[reqs[i].idx]
                    h == reqs[i].h
                    h2 == reqs'[i].h
                IN  IF f.Func = "SetHeader"
                    THEN VarX \in DOMAIN h.Variables =>
                            Get(h2.Headers, HeaderH) = HeaderPrefix \o SprintV(h.Variables[VarX])
                    ELSE h2.Headers = h.Headers
          /\ Writes(i) => reqs'[i].resp.headers = reqs[i].h.Headers]_vars

\* The header was set while the variable was "hi"; the variable was then
\* bound anew, and the response carries the header with "hi"
C36_Witness ==
    \E i \in DOMAIN reqs :
        /\ reqs[i].pc = "done" /\ reqs[i].resp.written
        /\ reqs[i].steps.list =
              << IfRequestPath(ConditionEqual, PathA, VarX, StrVal(<<"h", "i">>)),
                 SetHeader(<<>>, HeaderH, HeaderTemplate),
                 IfRequestPath(ConditionEqual, PathA, VarX, StrVal(<<"y", "o">>)) >>
        /\ Get(reqs[i].resp.headers, HeaderH) = HeaderPrefix \o <<"h", "i">>

-----------------------------------------------------------------------------
(* C37: routes registered with no instructions *)

\* C37: a request is answered 404 only when the table has no entry for its
\* (port, method, path); a request that matches an entry whose instruction
\* list is empty or absent is answered 200 with an empty body.
C37_EmptyScriptIsARoute ==
    [][\A i \in DOMAIN reqs :
          /\ LooksUp(i) =>
                /\ reqs'[i].result = "404" => ~Matched(i)
                /\ (Matched(i) /\ MatchedSteps(i).list = <<>>) => reqs'[i].pc = "exec"
          /\ (Writes(i) /\ reqs[i].steps.list = <<>>) =>
                /\ reqs'[i].resp.status = 200
                /\ reqs'[i].resp.body = <<>>]_vars

\* C37 for lists that are not absent: the empty list and longer ones
C37_EmptyListIsARoute ==
    [][\A i \in DOMAIN reqs :
          /\ LooksUp(i) =>
                /\ reqs'[i].result = "404" => (~Matched(i) \/ MatchedSteps(i).nil)
                /\ (Matched(i) /\ ~MatchedSteps(i).nil) => reqs'[i].pc = "exec"
          /\ (Writes(i) /\ reqs[i].steps.list = <<>>) =>
                /\ reqs'[i].resp.status = 200
                /\ reqs'[i].resp.body = <<>>]_vars

-----------------------------------------------------------------------------
(* C38: the loop of Execute *)

\* Request i is in the loop of Execute and takes a step
InLoop(i) == reqs[i].pc = "exec" /\ reqs'[i] # reqs[i]

\* C38: a request's instructions are executed one by one from the first to
\* the last, each exactly once: a step of the loop executes the instruction
\* at the current position and moves to the next position whatever the
\* instruction did, the request ends only after the last instruction, and
\* neither the list being executed nor the route table changes.
C38_EveryInstructionRunsOnce ==
    [][\A i \in DOMAIN reqs :
          InLoop(i) =>
             /\ reqs[i].idx <= Len(reqs[i].steps.list) =>
                   reqs'[i].pc = "exec" /\ reqs'[i].idx = reqs[i].idx + 1
             /\ reqs'[i].pc = "done" => reqs[i].idx = Len(reqs[i].steps.list) + 1
             /\ reqs'[i].steps = reqs[i].steps
             /\ Routes' = Routes]_vars

\* C38 for the instructions that do not panic
C38_RunsOnceUnlessPanic ==
    [][\A i \in DOMAIN reqs :
          InLoop(i) =>
             /\ (/\ reqs[i].idx <= Len(reqs[i].steps.list)
                 /\ reqs[i].steps.list[reqs[i].idx] \notin MalformedInstructions) =>
                   reqs'[i].pc = "exec" /\ reqs'[i].idx = reqs[i].idx + 1
             /\ (/\ reqs'[i].pc = "done"
                 /\ reqs[i].idx <= Len(reqs[i].steps.list)) =>
                   reqs[i].steps.list[reqs[i].idx] \in MalformedInstructions
             /\ reqs'[i].steps = reqs[i].steps
             /\ Routes' = Routes]_vars

-----------------------------------------------------------------------------
(* C39: the two JSON path lookups *)

\* What the interpreter obtains matches what the resolver returns: no value
\* when the resolver fails or resolves to null, the resolver's value otherwise
Agree(obtained, resolved) ==
    IF ~resolved.ok \/ resolved.v.t = "nil"
    THEN obtained.t = "nil"
    ELSE obtained = resolved.v

\* C39: on every document and path the interpreter's lookup obtains no value
\* exactly when the assertion helpers' resolver reports not-found or
\* resolves to null, and otherwise both yield the same value.
C39_LookupsAgree ==
    /\ Returned("getJSONPath") =>
          Agree(eval.ret, getValueByPath(eval.args[1], eval.args[2]))
    /\ Returned("getValueByPath") =>
          Agree(getJSONPath(RequestWithBody(eval.args[1]), eval.args[2]), eval.ret)

\* The paths in which every segment has a key, and a decimal number in its
\* bracket if it has one
KeyedPaths == {PathText(segs) : segs \in {p \in PathInputs : \A k \in DOMAIN p : p[k].key # <<>>}}

\* C39 for the paths whose segments all have a key
C39_AgreeOnKeyedPaths ==
    /\ (Returned("getJSONPath") /\ eval.args[2] \in KeyedPaths) =>
          Agree(eval.ret, getValueByPath(eval.args[1], eval.args[2]))
    /\ (Returned("getValueByPath") /\ eval.args[2] \in KeyedPaths) =>
          Agree(getJSONPath(RequestWithBody(eval.args[1]), eval.args[2]), eval.ret)

-----------------------------------------------------------------------------
(* C40: stage runs that overlap *)

InRealRun(g) == calls[g].fn = "RunStageByName"

\* What the claim says of the step a run takes: a helper records under the
\* name of the stage this caller runs, and a real run reads dry-run mode
\* (in Sleep and in Fail) as off
IsolatedStep(g) ==
    LET name == calls[g].name
    IN  /\ Sleep(g) =>
               stageActions' = [stageActions EXCEPT
                                   ![name] = Append(@, Action("Sleep", "Sleep"))]
        /\ (InRealRun(g) /\ (SleepDelay(g) \/ Fail(g))) => ~IsDryRun

\* C40: when runs started by different goroutines overlap, the actions of
\* each run are recorded under its own stage name as long as it runs, and a
\* real run never reads dry-run mode as on.
C40_RunsAreIsolated ==
    [][\A g \in Callers : IsolatedStep(g)]_vars

\* C40 for a run that no other call has overlapped
C40_IsolatedWhenAlone ==
    [][\A g \in Callers : ~calls[g].overlapped => IsolatedStep(g)]_vars

=============================================================================
